---------------------------- MODULE Spec2Model ----------------------------
(***************************************************************************)
(* A model of the rsdns wire-format codec (src/src/dns): the 12-byte       *)
(* header with its bit-packed flags, the label codec with compression      *)
(* pointers, the compression index used while encoding, the resource       *)
(* record envelope with the type-dispatched RDATA decoders and encoders,   *)
(* and the top-level message decode (DNS::from) and encode (DNS::encode).  *)
(*                                                                         *)
(* Bytes are naturals 0..255 and byte strings are sequences of them.  Rust *)
(* offsets are 0-based: the byte the code calls raw[i] is raw[i + 1] here  *)
(* (operator At), and the slice raw[a..b] is Slice(raw, a, b).  A Rust     *)
(* String is modelled by its UTF-8 bytes, '.' being byte 46.               *)
(*                                                                         *)
(* A fallible Rust call is a record with a field kind:                     *)
(*    "ok"       the call returned Ok,                                     *)
(*    "err"      the call returned Err,                                    *)
(*    "panic"    the call panicked (slice index out of range, unwrap of    *)
(*               an Err or of a None, integer underflow),                  *)
(*    "overflow" the call recursed without end (stack exhaustion).         *)
(***************************************************************************)
EXTENDS Integers, Sequences, FiniteSets, TLC

VARIABLES
    raw,      \* codec: the input byte string handed to DNS::from
    pc,       \* codec: "input", "parsed", "encoded" or "failed"; "idle" elsewhere
    dns,      \* codec: the result of DNS::from, and the message as later calls leave it
    edits,    \* codec: the number of calls that changed the message after DNS::from
    encFlag,  \* codec: the is_compressed argument of the last DNS::encode
    out,      \* codec: the result of the last DNS::encode
    hdr,      \* header: the 12 bytes of a Header
    prevHdr,  \* header: the 12 bytes before the last setter call
    lastOp,   \* header: the last setter call, [f |-> field, v |-> value]
    calls,    \* header: the number of setter calls made
    buf,      \* names: the output buffer of one message encode
    cl,       \* names: the CompressList of that encode
    written,  \* names: the names written so far, [name, pos] each
    prr,      \* opt: the ResourceRecord a PseudoRR wraps, [typ, class, ttl]
    prevPrr,  \* opt: that record before the last overlay setter call
    prrOp,    \* opt: the last overlay setter call, [f, v, ret]
    prrCalls, \* opt: the number of overlay setter calls made
    tree,     \* tree: the root DomainTree of a zone store
    pushed,   \* tree: the names given to push so far
    expected, \* tree: for each name, the record of the last set_rr made on it
              \*       while a node for it existed (<< >> when there is none)
    lookup,   \* tree: the last get_rr call, [name, res]
    treeOps,  \* tree: the number of push and set_rr calls made
    input,    \* label: the byte string handed to the name and question decoders
    nameRes,  \* label: the result of Labels::parse on it, << >> before the call
    quesRes,  \* label: the result of Question::from on it, << >> before the call
    protocol, \* serve: NameServer.protocol, "udp" or "tcp"
    inbox,    \* serve: what clients have sent and the socket has not yet handed over
    servePc,  \* serve: the serve loop: "recv" at its await, "panicked" once it unwound
    tasks,    \* serve: the tasks spawned and not yet run
    sent,     \* serve: the responses written to the socket
    received, \* serve: the datagrams and TCP payloads taken from the socket, as sent
    fwdProtocol,\* forward: DefaultForward.protocol
    fwdDns,   \* forward: the message handed to forward
    fwdPc,    \* forward: the call of forward: "call", "recv_from" or "returned"
    upstream, \* forward: the datagrams sent to the target
    fwdReply, \* forward: what the target has sent back: << >> or one datagram
    fwdRes,   \* forward: what forward returned, << >> before it returns
    elapsed,  \* forward: seconds gone by since forward was called
    zone,     \* lookups: the DomainTree the query tasks share
    borrow,   \* lookups: the borrow flag of the RefCell of each node, by the path of the node
    task,     \* lookups: each query task: where it is in get_rr and what it holds
    wire,     \* record: the message bytes handed to the decoders
    wireAt,   \* record: the offset the decoders start at
    nameAt,   \* record: the result of Labels::parse at that offset, << >> before the call
    rrAt,     \* record: the result of RR::from at that offset, << >> before the call
    encRR,    \* encode: the resource record handed to RR::encode
    encOut,   \* encode: what RR::encode left in the output buffer, << >> before the call
    rdTyp,    \* rdata: the TYPE the RDATA is decoded under
    rdBytes,  \* rdata: the RDATA bytes of one record
    rdVal,    \* rdata: the result of RDataType::from on them, << >> before the call
    rdStrs,   \* rdata: the result of parse_charactor_string on them, << >> before the call
    rdOut,    \* rdata: the result of encoding the decoded value, << >> before the call
    mfFile,   \* master: the text of the master file
    mfRrs,    \* master: DefaultMasterFiles.rrs of the object that decodes and encodes
    mfPc,     \* master: that object: "new", "decoded", "encoded", "reread", "failed" or "panicked"
    mfBack,   \* master: what a new object decodes from the file after the encode, << >> before
    nameBack, \* back: the bytes encode_domain_name gives for the decoded name, << >> before the call
    sortRRs,  \* sort: the records of an RRs, in its order
    sortDone  \* sort: whether RRs::sort was the last call on it

vars ==
    <<raw, pc, dns, edits, encFlag, out, hdr, prevHdr, lastOp, calls, buf, cl, written,
      prr, prevPrr, prrOp, prrCalls, tree, pushed, expected, lookup, treeOps,
      input, nameRes, quesRes,
      protocol, inbox, servePc, tasks, sent, received,
      fwdProtocol, fwdDns, fwdPc, upstream, fwdReply, fwdRes, elapsed,
      zone, borrow, task,
      wire, wireAt, nameAt, rrAt,
      encRR, encOut,
      rdTyp, rdBytes, rdVal, rdStrs, rdOut,
      mfFile, mfRrs, mfPc, mfBack,
      nameBack,
      sortRRs, sortDone>>

---------------------------------------------------------------------------
(* Byte-string helpers.                                                    *)

Byte == 0..255

At(s, i) == s[i + 1]

\* Rust s[a..b]; callers establish a <= b <= Len(s) first (the code panics otherwise)
Slice(s, a, b) == SubSeq(s, a + 1, b)

\* Rust s[a..]
Drop(s, a) == SubSeq(s, a + 1, Len(s))

Min(a, b) == IF a < b THEN a ELSE b

\* u16::from_be_bytes / to_be_bytes
U16(hi, lo) == hi * 256 + lo

U16Bytes(v) == << (v \div 256) % 256, v % 256 >>

\* A u32 (TTL, the SOA counters) is kept as its four big-endian bytes:
\* u32::from_be_bytes and to_be_bytes are inverse bijections, and the values
\* exceed the integers the checker computes with.
U32(b) == b

U32Bytes(v) == v

\* bit pos (0 = least significant) of byte b
Bit(b, pos) == (b \div (2 ^ pos)) % 2

\* String::from_utf8: whether the bytes are well-formed UTF-8
RECURSIVE ValidUtf8(_)
ValidUtf8(s) ==
    IF Len(s) = 0 THEN TRUE
    ELSE LET b0 == s[1]
             cont(i) == i <= Len(s) /\ s[i] >= 128 /\ s[i] <= 191
             rng(i, lo, hi) == i <= Len(s) /\ s[i] >= lo /\ s[i] <= hi
             n == IF b0 < 128 THEN 1
                  ELSE IF b0 >= 194 /\ b0 <= 223 /\ cont(2) THEN 2
                  ELSE IF b0 = 224 /\ rng(2, 160, 191) /\ cont(3) THEN 3
                  ELSE IF b0 >= 225 /\ b0 <= 236 /\ cont(2) /\ cont(3) THEN 3
                  ELSE IF b0 = 237 /\ rng(2, 128, 159) /\ cont(3) THEN 3
                  ELSE IF b0 >= 238 /\ b0 <= 239 /\ cont(2) /\ cont(3) THEN 3
                  ELSE IF b0 = 240 /\ rng(2, 144, 191) /\ cont(3) /\ cont(4) THEN 4
                  ELSE IF b0 >= 241 /\ b0 <= 243 /\ cont(2) /\ cont(3) /\ cont(4) THEN 4
                  ELSE IF b0 = 244 /\ rng(2, 128, 143) /\ cont(3) /\ cont(4) THEN 4
                  ELSE 0
         IN  IF n = 0 THEN FALSE ELSE ValidUtf8(SubSeq(s, n + 1, Len(s)))

DOT == 46

\* [String].join(".")
RECURSIVE Join(_)
Join(labels) ==
    IF Len(labels) = 0 THEN <<>>
    ELSE IF Len(labels) = 1 THEN labels[1]
    ELSE labels[1] \o <<DOT>> \o Join(Tail(labels))

\* str.split("."): always at least one piece; "" gives <<"">>
RECURSIVE SplitFrom(_, _, _)
SplitFrom(s, i, cur) ==
    IF i > Len(s) THEN << cur >>
    ELSE IF s[i] = DOT THEN << cur >> \o SplitFrom(s, i + 1, <<>>)
    ELSE SplitFrom(s, i + 1, Append(cur, s[i]))

Split(s) == SplitFrom(s, 1, <<>>)

\* str.find(pat): the 0-based index of the first occurrence, or -1 for None
RECURSIVE FindFrom(_, _, _)
FindFrom(s, pat, i) ==
    IF i + Len(pat) > Len(s) THEN -1
    ELSE IF SubSeq(s, i + 1, i + Len(pat)) = pat THEN i
    ELSE FindFrom(s, pat, i + 1)

Find(s, pat) == FindFrom(s, pat, 0)

\* String::cmp: bytewise lexicographic order; -1 Less, 0 Equal, 1 Greater
RECURSIVE StrCmp(_, _)
StrCmp(a, b) ==
    IF Len(a) = 0 /\ Len(b) = 0 THEN 0
    ELSE IF Len(a) = 0 THEN -1
    ELSE IF Len(b) = 0 THEN 1
    ELSE IF a[1] < b[1] THEN -1
    ELSE IF a[1] > b[1] THEN 1
    ELSE StrCmp(Tail(a), Tail(b))

---------------------------------------------------------------------------
(* util::is_compressed and is_compressed_wrap.                             *)

is_compressed(pointer) ==
    [off |-> U16(pointer[1] % 64, pointer[2]),
     is  |-> pointer[1] \div 64 = 3]

is_compressed_wrap(s) ==
    IF Len(s) < 2 THEN [off |-> 0, is |-> FALSE]
    ELSE is_compressed(SubSeq(s, 1, 2))

---------------------------------------------------------------------------
(* Header (src/src/dns/header.rs): 12 bytes, `h` below.                    *)

\* rsbit set_1 / set_0 on one byte
SetBit1(b, pos) == IF Bit(b, pos) = 1 THEN b ELSE b + 2 ^ pos

SetBit0(b, pos) == IF Bit(b, pos) = 1 THEN b - 2 ^ pos ELSE b

set_bit(h, index, pos, val) ==
    IF index > Len(h) \/ pos >= 8 \/ val > 1 THEN h
    ELSE [h EXCEPT ![index + 1] =
             IF val = 1 THEN SetBit1(h[index + 1], pos) ELSE SetBit0(h[index + 1], pos)]

id(h) == U16(At(h, 0), At(h, 1))

with_id(h, v) == [h EXCEPT ![1] = U16Bytes(v)[1], ![2] = U16Bytes(v)[2]]

qr(h) == (At(h, 2) \div 128) % 2 = 1

with_qr(h, v) == IF v THEN set_bit(h, 2, 7, 1) ELSE set_bit(h, 2, 7, 0)

opcode(h) == (At(h, 2) % 128) \div 8

\* with_opcode without its range check
with_opcode_unchecked(h, v) ==
    LET oc == (v * 8) % 256
        h6 == set_bit(h,  2, 6, Bit(oc, 6))
        h5 == set_bit(h6, 2, 5, Bit(oc, 5))
        h4 == set_bit(h5, 2, 4, Bit(oc, 4))
    IN  set_bit(h4, 2, 3, Bit(oc, 3))

\* oc is opcode << 3 in u8; bit 6..3 of oc are copied to byte 2
with_opcode(h, v) ==
    IF v > 15 THEN h
    ELSE LET oc == (v * 8) % 256
             h6 == set_bit(h,  2, 6, Bit(oc, 6))
             h5 == set_bit(h6, 2, 5, Bit(oc, 5))
             h4 == set_bit(h5, 2, 4, Bit(oc, 4))
         IN  set_bit(h4, 2, 3, Bit(oc, 3))

aa(h) == Bit(At(h, 2), 2) = 1

with_aa(h, v) == IF v THEN set_bit(h, 2, 2, 1) ELSE set_bit(h, 2, 2, 0)

tc(h) == Bit(At(h, 2), 1) = 1

with_tc(h, v) == IF v THEN set_bit(h, 2, 1, 1) ELSE set_bit(h, 2, 1, 0)

rd(h) == Bit(At(h, 2), 0) = 1

with_rd(h, v) == IF v THEN set_bit(h, 2, 0, 1) ELSE set_bit(h, 2, 0, 0)

ra(h) == Bit(At(h, 3), 7) = 1

with_ra(h, v) == IF v THEN set_bit(h, 3, 7, 1) ELSE set_bit(h, 3, 7, 0)

z(h) == (At(h, 3) % 128) \div 16

\* with_z storing z << 4 over the high half of byte 3, RA included
with_z_whole_nibble(h, v) ==
    IF v > 7 THEN h
    ELSE [h EXCEPT ![4] = ((v * 16) % 256) + (h[4] % 16)]

with_z(h, v) ==
    IF v > 7 THEN h
    ELSE LET zz == (v * 16) % 256
             h6 == set_bit(h,  3, 6, Bit(zz, 6))
             h5 == set_bit(h6, 3, 5, Bit(zz, 5))
         IN  set_bit(h5, 3, 4, Bit(zz, 4))

rcode(h) == At(h, 3) % 16

with_rcode(h, v) ==
    IF v > 15 THEN h
    ELSE LET h3 == set_bit(h,  3, 3, Bit(v, 3))
             h2 == set_bit(h3, 3, 2, Bit(v, 2))
             h1 == set_bit(h2, 3, 1, Bit(v, 1))
         IN  set_bit(h1, 3, 0, Bit(v, 0))

qdcount(h) == U16(At(h, 4), At(h, 5))

with_qdcount(h, v) == [h EXCEPT ![5] = U16Bytes(v)[1], ![6] = U16Bytes(v)[2]]

ancount(h) == U16(At(h, 6), At(h, 7))

with_ancount(h, v) == [h EXCEPT ![7] = U16Bytes(v)[1], ![8] = U16Bytes(v)[2]]

nscount(h) == U16(At(h, 8), At(h, 9))

with_nscount(h, v) == [h EXCEPT ![9] = U16Bytes(v)[1], ![10] = U16Bytes(v)[2]]

arcount(h) == U16(At(h, 10), At(h, 11))

with_arcount(h, v) == [h EXCEPT ![11] = U16Bytes(v)[1], ![12] = U16Bytes(v)[2]]

\* the thirteen fields, their getters and setters by name
Fields ==
    {"id", "qr", "opcode", "aa", "tc", "rd", "ra", "z", "rcode",
     "qdcount", "ancount", "nscount", "arcount"}

Get(h, f) ==
    CASE f = "id" -> id(h)
      [] f = "qr" -> qr(h)
      [] f = "opcode" -> opcode(h)
      [] f = "aa" -> aa(h)
      [] f = "tc" -> tc(h)
      [] f = "rd" -> rd(h)
      [] f = "ra" -> ra(h)
      [] f = "z" -> z(h)
      [] f = "rcode" -> rcode(h)
      [] f = "qdcount" -> qdcount(h)
      [] f = "ancount" -> ancount(h)
      [] f = "nscount" -> nscount(h)
      [] f = "arcount" -> arcount(h)

Getters(h) == [f \in Fields |-> Get(h, f)]

---------------------------------------------------------------------------
(* Label codec, decode side (src/src/dns/labels.rs).                       *)
(*                                                                         *)
(* Every decode result carries two observations about the run besides the  *)
(* Rust value: ptr, whether a compression pointer was followed, and bad,   *)
(* whether a pointer was read whose target offset is not below the         *)
(* pointer's own position in the message.  For that the decoders take one  *)
(* parameter the code does not have: base, the position in the message of  *)
(* the first byte of the buffer they read (0 for the message itself, the   *)
(* position of the RDATA for an RDATA slice).                              *)

Fail(kind, ptr, bad) == [kind |-> kind, ptr |-> ptr, bad |-> bad]

\* Labels::parse(raw, &mut offset).  `active` holds the start offsets of the
\* calls of Labels::parse that are in progress: the call is a function of
\* (raw, offset) alone, so entering it again for an offset in progress is a
\* recursion without end.
RECURSIVE Labels_parse_at(_, _, _, _)
RECURSIVE Labels_parse_loop(_, _, _, _, _)
Labels_parse_loop(b, start, label, active, base) ==
    LET cw == is_compressed_wrap(Drop(b, start)) IN
    IF cw.is
    THEN LET lb == Labels_parse_at(b, cw.off, active, base)
             bad == cw.off >= base + start
         IN  IF lb.kind # "ok" THEN Fail(lb.kind, TRUE, bad \/ lb.bad)
             ELSE [kind |-> "ok", labels |-> label \o lb.labels, offset |-> start,
                   ptr |-> TRUE, bad |-> bad \/ lb.bad]
    ELSE LET u == IF start < Len(b) THEN At(b, start) ELSE 0 IN
         IF u = 0
         THEN [kind |-> "ok", labels |-> label, offset |-> start + 1,
               ptr |-> FALSE, bad |-> FALSE]
         ELSE IF start + 1 + u >= Len(b) THEN Fail("err", FALSE, FALSE)
         ELSE IF ~ValidUtf8(Slice(b, start + 1, start + 1 + u))
              THEN Fail("panic", FALSE, FALSE)
         ELSE Labels_parse_loop(b, start + 1 + u,
                                Append(label, Slice(b, start + 1, start + 1 + u)),
                                active, base)

Labels_parse_at(b, offset, active, base) ==
    IF offset > Len(b) THEN Fail("panic", FALSE, FALSE)
    ELSE IF offset \in active THEN Fail("overflow", FALSE, FALSE)
    ELSE Labels_parse_loop(b, offset, <<>>, active \cup {offset}, base)

\* on a buffer that starts at position base of the message
Labels_parse_in(b, offset, base) == Labels_parse_at(b, offset, {}, base)

\* on the message itself
Labels_parse(b, offset) == Labels_parse_in(b, offset, 0)

encode_to_str(labels) == Join(labels)

---------------------------------------------------------------------------
(* RDATA helpers (src/src/dns/rdata/mod.rs).                               *)

\* parse_charactor_string: `start` grows by one per string and the next
\* length octet is always taken `length` places after index 1
RECURSIVE parse_charactor_string_loop(_, _, _, _)
parse_charactor_string_loop(rdata, next, start, list) ==
    IF next >= Len(rdata) THEN [kind |-> "ok", list |-> list]
    ELSE LET length == At(rdata, next)
             st == start + 1
         IN  IF st + length > Len(rdata) THEN [kind |-> "err"]
             ELSE parse_charactor_string_loop(rdata, 1 + length, st,
                                              Append(list, Slice(rdata, st, st + length)))

parse_charactor_string(rdata) == parse_charactor_string_loop(rdata, 0, 0, <<>>)

\* parse_domain_name(raw, rdata): the names held by rdata, one after the other
RECURSIVE parse_domain_name_name(_, _, _, _, _, _, _, _)
RECURSIVE parse_domain_name_list(_, _, _, _, _, _, _)
RECURSIVE parse_domain_name_pointer(_, _, _, _, _, _, _, _)
\* the pointer arm: lb is Labels::parse(raw, &mut compressed_offset), bd the
\* observation about the pointers read so far
parse_domain_name_pointer(b, rdata, base, offset, labels, list, bd, lb) ==
    IF lb.kind # "ok" THEN Fail(lb.kind, TRUE, bd \/ lb.bad)
    ELSE parse_domain_name_list(b, rdata, base, offset + 2,
                                Append(list, labels \o lb.labels), TRUE, bd \/ lb.bad)

parse_domain_name_name(b, rdata, base, offset, labels, list, ptr, bad) ==
    IF At(rdata, offset) = 0
    THEN parse_domain_name_list(b, rdata, base, offset + 1, Append(list, labels), ptr, bad)
    ELSE LET cw == is_compressed_wrap(Drop(rdata, offset)) IN
         IF cw.is
         THEN parse_domain_name_pointer(b, rdata, base, offset, labels, list,
                                        bad \/ cw.off >= base + offset,
                                        Labels_parse(b, cw.off))
         ELSE LET len == At(rdata, offset)
                  st == offset + 1
              IN  IF st + len > Len(rdata) THEN Fail("panic", ptr, bad)
                  ELSE IF ~ValidUtf8(Slice(rdata, st, st + len)) THEN Fail("err", ptr, bad)
                  ELSE IF st + len >= Len(rdata) THEN Fail("err", ptr, bad)
                  ELSE parse_domain_name_name(b, rdata, base, st + len,
                                              Append(labels, Slice(rdata, st, st + len)),
                                              list, ptr, bad)

parse_domain_name_list(b, rdata, base, offset, list, ptr, bad) ==
    IF offset < Len(rdata)
    THEN parse_domain_name_name(b, rdata, base, offset, <<>>, list, ptr, bad)
    ELSE [kind |-> "ok", list |-> list, ptr |-> ptr, bad |-> bad]

parse_domain_name(b, rdata, base) ==
    parse_domain_name_list(b, rdata, base, 0, <<>>, FALSE, FALSE)

\* parse_domain_name_without_len is called by MB::decode and MF::decode; it
\* reads the names of an RDATA as parse_domain_name does
parse_domain_name_without_len(b, rdata, base) == parse_domain_name(b, rdata, base)

---------------------------------------------------------------------------
(* The record types (src/src/dns/mod.rs) and the RDATA decoders            *)
(* (src/src/dns/rdata/*.rs).  A decoded RDATA is a record with a tag.      *)

TYPE_A == 1

TYPE_NS == 2

TYPE_MD == 3

TYPE_MF == 4

TYPE_CNAME == 5

TYPE_SOA == 6

TYPE_MB == 7

TYPE_MG == 8

TYPE_MR == 9

TYPE_NULL == 10

TYPE_WKS == 11

TYPE_PTR == 12

TYPE_HINFO == 13

TYPE_MINFO == 14

TYPE_MX == 15

TYPE_TXT == 16

Decoded(rdata, ptr, bad) == [kind |-> "ok", rdata |-> rdata, ptr |-> ptr, bad |-> bad]

A_decode(rdata) ==
    IF Len(rdata) < 4 THEN Fail("err", FALSE, FALSE)
    ELSE Decoded([tag |-> "A", addr |-> Slice(rdata, 0, 4)], FALSE, FALSE)

\* NS::decode, MD::decode: parse_domain_name(raw, rdata)?.get(0).unwrap()
FirstName_decode(tag, pd) ==
    IF pd.kind # "ok" THEN Fail(pd.kind, pd.ptr, pd.bad)
    ELSE IF Len(pd.list) = 0 THEN Fail("panic", pd.ptr, pd.bad)
    ELSE Decoded([tag |-> tag, name |-> encode_to_str(pd.list[1])], pd.ptr, pd.bad)

NS_decode(b, rdata, base) == FirstName_decode("NS", parse_domain_name(b, rdata, base))

MD_decode(b, rdata, base) == FirstName_decode("MD", parse_domain_name(b, rdata, base))

MB_decode(b, rdata, base) ==
    FirstName_decode("MB", parse_domain_name_without_len(b, rdata, base))

MF_decode(b, rdata, base) ==
    FirstName_decode("MF", parse_domain_name_without_len(b, rdata, base))

\* CName::decode, MG::decode, MR::decode, PTR::decode: a pointer at the start
\* of the RDATA is followed in the message, anything else is parsed with the
\* RDATA as the buffer
PointerOrLabels_named(tag, ptr, bad, lb) ==
    IF lb.kind # "ok" THEN Fail(lb.kind, ptr \/ lb.ptr, bad \/ lb.bad)
    ELSE Decoded([tag |-> tag, name |-> encode_to_str(lb.labels)],
                 ptr \/ lb.ptr, bad \/ lb.bad)

PointerOrLabels_decode(tag, b, rdata, base) ==
    LET cw == is_compressed_wrap(rdata) IN
    PointerOrLabels_named(tag, cw.is, cw.is /\ cw.off >= base,
                          Labels_parse_in(IF cw.is THEN b ELSE rdata,
                                          IF cw.is THEN cw.off ELSE 0,
                                          IF cw.is THEN 0 ELSE base))

CName_decode(b, rdata, base) == PointerOrLabels_decode("CName", b, rdata, base)

MG_decode(b, rdata, base) == PointerOrLabels_decode("MG", b, rdata, base)

MR_decode(b, rdata, base) == PointerOrLabels_decode("MR", b, rdata, base)

PTR_decode(b, rdata, base) == PointerOrLabels_decode("PTR", b, rdata, base)

MX_named(rdata, pd) ==
    IF pd.kind # "ok" THEN Fail(pd.kind, pd.ptr, pd.bad)
    ELSE IF Len(pd.list) = 0 THEN Fail("panic", pd.ptr, pd.bad)
    ELSE Decoded([tag |-> "MX", preference |-> U16(rdata[1], rdata[2]),
                  exchange |-> encode_to_str(pd.list[1])], pd.ptr, pd.bad)

MX_decode(b, rdata, base) ==
    IF Len(rdata) < 2 THEN Fail("panic", FALSE, FALSE)
    ELSE MX_named(rdata, parse_domain_name(b, Drop(rdata, 2), base + 2))

\* SOA::decode: rdata.len() - 20 underflows (a panic) for an RDATA under 20 bytes
SOA_named(rdata, n, pd) ==
    IF pd.kind # "ok" THEN Fail(pd.kind, pd.ptr, pd.bad)
    ELSE IF Len(pd.list) < 2 THEN Fail("err", pd.ptr, pd.bad)
    ELSE Decoded([tag |-> "SOA",
                  mname |-> encode_to_str(pd.list[1]),
                  rname |-> encode_to_str(pd.list[2]),
                  serial  |-> U32(Slice(rdata, n, n + 4)),
                  refresh |-> U32(Slice(rdata, n + 4, n + 8)),
                  retry   |-> U32(Slice(rdata, n + 8, n + 12)),
                  expire  |-> U32(Slice(rdata, n + 12, n + 16)),
                  minimum |-> U32(Slice(rdata, n + 16, n + 20))],
                 pd.ptr, pd.bad)

SOA_decode(b, rdata, base) ==
    IF Len(rdata) < 20 THEN Fail("panic", FALSE, FALSE)
    ELSE SOA_named(rdata, Len(rdata) - 20,
                   parse_domain_name(b, Slice(rdata, 0, Len(rdata) - 20), base))

Null_decode(rdata) == Decoded([tag |-> "Null", bytes |-> rdata], FALSE, FALSE)

\* TXT::decode keeps the bytes as a String without checking them
TXT_decode(rdata) == Decoded([tag |-> "TXT", bytes |-> rdata], FALSE, FALSE)

HInfo_decode(rdata) ==
    LET cs == parse_charactor_string(rdata) IN
    IF cs.kind # "ok" THEN Fail("err", FALSE, FALSE)
    ELSE IF Len(cs.list) >= 1 /\ ~ValidUtf8(cs.list[1]) THEN Fail("err", FALSE, FALSE)
    ELSE IF Len(cs.list) >= 2 /\ ~ValidUtf8(cs.list[2]) THEN Fail("err", FALSE, FALSE)
    ELSE Decoded([tag |-> "HInfo",
                  synthesized |-> Len(cs.list) = 1,
                  cpu |-> IF Len(cs.list) >= 1 THEN cs.list[1] ELSE <<>>,
                  os  |-> IF Len(cs.list) >= 2 THEN cs.list[2] ELSE <<>>],
                 FALSE, FALSE)

WKS_decode(rdata) ==
    IF 5 > Len(rdata) THEN Fail("err", FALSE, FALSE)
    ELSE Decoded([tag |-> "WKS", addr |-> Slice(rdata, 0, 4), protocol |-> At(rdata, 4),
                  bit_map |-> Drop(rdata, 4)], FALSE, FALSE)

\* RDataType::from(raw, rdata, typ)
RDataType_from(b, rdata, base, typ) ==
    CASE typ = TYPE_CNAME -> CName_decode(b, rdata, base)
      [] typ = TYPE_HINFO -> HInfo_decode(rdata)
      [] typ = TYPE_MB    -> MB_decode(b, rdata, base)
      [] typ = TYPE_MD    -> MD_decode(b, rdata, base)
      [] typ = TYPE_MF    -> MF_decode(b, rdata, base)
      [] typ = TYPE_MG    -> MG_decode(b, rdata, base)
      [] typ = TYPE_MINFO -> MG_decode(b, rdata, base)
      [] typ = TYPE_MR    -> MR_decode(b, rdata, base)
      [] typ = TYPE_MX    -> MX_decode(b, rdata, base)
      [] typ = TYPE_NULL  -> Null_decode(rdata)
      [] typ = TYPE_NS    -> NS_decode(b, rdata, base)
      [] typ = TYPE_PTR   -> PTR_decode(b, rdata, base)
      [] typ = TYPE_SOA   -> SOA_decode(b, rdata, base)
      [] typ = TYPE_TXT   -> TXT_decode(rdata)
      [] typ = TYPE_A     -> A_decode(rdata)
      [] typ = TYPE_WKS   -> WKS_decode(rdata)
      [] OTHER            -> Fail("err", FALSE, FALSE)

---------------------------------------------------------------------------
(* Question (src/src/dns/question.rs) and resource record                  *)
(* (src/src/dns/rr.rs), decode side.                                       *)

\* Question::from, reading at `offset` of the message as DNS::from calls it:
\* the name, then QTYPE and QCLASS, with the two length checks of the code
Question_named(b, lb) ==
    IF lb.kind # "ok" THEN Fail(lb.kind, lb.ptr, lb.bad)
    ELSE IF Len(b) < 4 + lb.offset THEN Fail("err", lb.ptr, lb.bad)
    ELSE [kind |-> "ok",
          ques |-> [qname  |-> lb.labels,
                    qtype  |-> U16(At(b, lb.offset), At(b, lb.offset + 1)),
                    qclass |-> U16(At(b, lb.offset + 2), At(b, lb.offset + 3))],
          offset |-> lb.offset + 4, ptr |-> lb.ptr, bad |-> lb.bad]

Question_from(b, offset) ==
    IF Len(b) <= offset THEN Fail("err", FALSE, FALSE)
    ELSE Question_named(b, Labels_parse(b, offset))

\* RR::from, the end: dec is what RDataType::from made of the RDATA at off
RR_from_rdata(b, name, offset, flag, ptr, bad, dec) ==
    IF dec.kind # "ok" THEN Fail(dec.kind, ptr \/ dec.ptr, bad \/ dec.bad)
    ELSE [kind |-> "ok",
          rr |-> [name |-> name,
                  typ |-> U16(At(b, offset), At(b, offset + 1)),
                  class |-> U16(At(b, offset + 2), At(b, offset + 3)),
                  ttl |-> U32(Slice(b, offset + 4, offset + 8)),
                  rdlength |-> U16(At(b, offset + 8), At(b, offset + 9)),
                  rdata |-> dec.rdata],
          offset |-> offset + 10 + U16(At(b, offset + 8), At(b, offset + 9)),
          flag |-> flag, ptr |-> ptr \/ dec.ptr, bad |-> bad \/ dec.bad]

\* RR::from, after the owner name: TYPE, CLASS, TTL, RDLENGTH, RDATA.
\* `flag` is *is_compressed as the name step left it.
RR_from_body(b, name, offset, flag, ptr, bad) ==
    IF offset + 10 > Len(b) THEN Fail("err", ptr, bad)
    ELSE LET typ      == U16(At(b, offset), At(b, offset + 1))
             rdlength == U16(At(b, offset + 8), At(b, offset + 9))
             off      == offset + 10
         IN  IF off + rdlength > Len(b) THEN Fail("err", ptr, bad)
             ELSE RR_from_rdata(b, name, offset, flag, ptr, bad,
                                RDataType_from(b, Slice(b, off, off + rdlength), off, typ))

\* RR::from, the owner name: behind a pointer at the start the offset moves
\* two bytes and the flag is set; otherwise Labels::parse moves the offset
RR_from_named(b, offset, flag, pointer, bad, lb) ==
    IF lb.kind # "ok" THEN Fail(lb.kind, pointer \/ lb.ptr, bad \/ lb.bad)
    ELSE RR_from_body(b, encode_to_str(lb.labels),
                      IF pointer THEN offset + 2 ELSE lb.offset,
                      pointer \/ flag, pointer \/ lb.ptr, bad \/ lb.bad)

\* RR::from(raw, &mut offset, &mut is_compressed)
RR_from(b, offset, flag) ==
    IF offset + 2 > Len(b) THEN Fail("err", FALSE, FALSE)
    ELSE LET cw == is_compressed_wrap(Drop(b, offset)) IN
         RR_from_named(b, offset, flag, cw.is, cw.is /\ cw.off >= offset,
                       Labels_parse(b, IF cw.is THEN cw.off ELSE offset))

---------------------------------------------------------------------------
(* Message decode (src/src/dns/dns.rs, DNS::from).                         *)

\* for _i in 0..qdcount { Question::from(&raw, &mut offset)? ; push }
RECURSIVE ParseQuestions(_, _, _, _, _, _)
RECURSIVE ParseQuestions_push(_, _, _, _, _, _)
ParseQuestions_push(b, n, acc, ptr, bad, q) ==
    IF q.kind # "ok" THEN Fail(q.kind, ptr \/ q.ptr, bad \/ q.bad)
    ELSE ParseQuestions(b, q.offset, n - 1, Append(acc, q.ques), ptr \/ q.ptr, bad \/ q.bad)

ParseQuestions(b, offset, n, acc, ptr, bad) ==
    IF n = 0 THEN [kind |-> "ok", list |-> acc, offset |-> offset, ptr |-> ptr, bad |-> bad]
    ELSE ParseQuestions_push(b, n, acc, ptr, bad, Question_from(b, offset))

\* for _i in 0..count { ResourceRecord::from(&raw, &mut offset, &mut flag)? ; push }
RECURSIVE ParseRRs(_, _, _, _, _, _, _)
RECURSIVE ParseRRs_push(_, _, _, _, _, _)
\* a variant of the loop body that ends the section at the first record that
\* fails, without the `?`: the records read so far are kept
ParseRRs_push_lenient(b, n, acc, ptr, bad, r) ==
    IF r.kind # "ok"
    THEN [kind |-> "ok", list |-> acc, offset |-> Len(b), flag |-> FALSE,
          ptr |-> ptr \/ r.ptr, bad |-> bad \/ r.bad]
    ELSE ParseRRs(b, r.offset, n - 1, r.flag, Append(acc, r.rr), ptr \/ r.ptr, bad \/ r.bad)

ParseRRs_push(b, n, acc, ptr, bad, r) ==
    IF r.kind # "ok" THEN Fail(r.kind, ptr \/ r.ptr, bad \/ r.bad)
    ELSE ParseRRs(b, r.offset, n - 1, r.flag, Append(acc, r.rr), ptr \/ r.ptr, bad \/ r.bad)

ParseRRs(b, offset, n, flag, acc, ptr, bad) ==
    IF n = 0
    THEN [kind |-> "ok", list |-> acc, offset |-> offset, flag |-> flag,
          ptr |-> ptr, bad |-> bad]
    ELSE ParseRRs_push(b, n, acc, ptr, bad, RR_from(b, offset, flag))

Message(head, ques, an, ns, ar, flag, offset, ptr, bad) ==
    [kind |-> "ok", head |-> head, ques |-> ques, answers |-> an, authority |-> ns,
     additional |-> ar, is_compressed |-> flag, offset |-> offset, ptr |-> ptr, bad |-> bad]

\* DNS::from, section by section: qs, an, ns, ar are the results of the four
\* loops, each started where the one before it stopped
DNS_from_additional(b, qs, an, ns, ar) ==
    IF ar.kind # "ok" THEN ar
    ELSE Message(Slice(b, 0, 12), qs.list, an.list, ns.list, ar.list, ar.flag, ar.offset,
                 ar.ptr, ar.bad)

DNS_from_authority(b, qs, an, ns) ==
    IF ns.kind # "ok" THEN ns
    ELSE DNS_from_additional(b, qs, an, ns,
             ParseRRs(b, ns.offset, arcount(b), ns.flag, <<>>, ns.ptr, ns.bad))

DNS_from_answers(b, qs, an) ==
    IF an.kind # "ok" THEN an
    ELSE DNS_from_authority(b, qs, an,
             ParseRRs(b, an.offset, nscount(b), an.flag, <<>>, an.ptr, an.bad))

DNS_from_questions(b, qs) ==
    IF qs.kind # "ok" THEN qs
    ELSE IF qs.offset > Len(b)
    THEN Message(Slice(b, 0, 12), qs.list, <<>>, <<>>, <<>>, FALSE, qs.offset, qs.ptr, qs.bad)
    ELSE DNS_from_answers(b, qs,
             ParseRRs(b, qs.offset, ancount(b), FALSE, <<>>, qs.ptr, qs.bad))

DNS_from(b) ==
    IF Len(b) < 12 THEN Fail("err", FALSE, FALSE)
    ELSE DNS_from_questions(b, ParseQuestions(b, 12, qdcount(b), <<>>, FALSE, FALSE))

---------------------------------------------------------------------------
(* Compression index (src/src/dns/compress_list.rs): a list of             *)
(* [d: domain string, off: offset] kept sorted by falling string length.   *)

\* self.0.sort_by(|a, b| b.0.len().cmp(&a.0.len())): a stable sort
RECURSIVE InsertByLen(_, _)
InsertByLen(sorted, e) ==
    IF Len(sorted) = 0 THEN << e >>
    ELSE IF Len(sorted[1].d) >= Len(e.d) THEN << sorted[1] >> \o InsertByLen(Tail(sorted), e)
    ELSE << e >> \o sorted

RECURSIVE CompressList_sort(_)
CompressList_sort(list) ==
    IF Len(list) = 0 THEN <<>>
    ELSE InsertByLen(CompressList_sort(SubSeq(list, 1, Len(list) - 1)), list[Len(list)])

\* CompressList::get: slice::binary_search_by with the string order, run on
\* the list as it is (sorted by length, not by string).  The loop is the one
\* of the standard library: probe the middle of [left, right).
RECURSIVE BinarySearch(_, _, _, _)
BinarySearch(list, domain, left, right) ==
    IF left >= right THEN FALSE
    ELSE LET mid == left + (right - left) \div 2
             c == StrCmp(list[mid + 1].d, domain)
         IN  IF c = 0 THEN TRUE
             ELSE IF c < 0 THEN BinarySearch(list, domain, mid + 1, right)
             ELSE BinarySearch(list, domain, left, mid)

CompressList_get(list, domain) == BinarySearch(list, domain, 0, Len(list))

\* CompressList::push: every run of i consecutive labels of the domain,
\* i = 1 .. number of labels, each at offset + (its first index in the string)
RECURSIVE CompressList_push_from(_, _, _, _, _, _)
CompressList_push_from(list, domain, offset, col, i, j) ==
    IF i > Len(col) THEN list
    ELSE IF j + i - 1 > Len(col)
    THEN CompressList_push_from(list, domain, offset, col, i + 1, 1)
    ELSE LET sub_domain == Join(SubSeq(col, j, j + i - 1))
             found == Find(domain, sub_domain)
             sub_domain_offset == IF found >= 0 THEN offset + found ELSE offset
             next == IF CompressList_get(list, sub_domain) THEN list
                     ELSE CompressList_sort(
                              Append(list, [d |-> sub_domain, off |-> sub_domain_offset]))
         IN  CompressList_push_from(next, domain, offset, col, i, j + 1)

CompressList_push(list, domain, offset) ==
    CompressList_push_from(list, domain, offset, Split(domain), 1, 1)

---------------------------------------------------------------------------
(* Label codec, encode side (src/src/dns/rdata/mod.rs).                    *)

\* one label on the wire: its length as u8, then its bytes
LabelBytes(l) == << Len(l) % 256 >> \o l

RECURSIVE LabelsBytes(_)
LabelsBytes(col) ==
    IF Len(col) = 0 THEN <<>> ELSE LabelBytes(col[1]) \o LabelsBytes(Tail(col))

\* encode_domain_name: every piece of split("."), then the zero octet
encode_domain_name(domain_name) == LabelsBytes(Split(domain_name)) \o << 0 >>

\* the closure `encode` of encode_domain_name_wrap: the pieces up to the
\* first empty one, no zero octet
RECURSIVE EncodeUntilEmpty(_)
EncodeUntilEmpty(col) ==
    IF Len(col) = 0 \/ Len(col[1]) = 0 THEN <<>>
    ELSE LabelBytes(col[1]) \o EncodeUntilEmpty(Tail(col))

\* (offset as u16).to_be_bytes() with 0b1100_0000 or-ed into the first byte
PointerBytes(offset) == << 192 + ((offset \div 256) % 64), offset % 256 >>

\* the entry of the list at index k (1-based) can stand for part of the name
Matches(domain_name, domain) ==
    LET pos == Find(domain_name, domain) IN
    /\ pos >= 0
    /\ Len(domain) > 2
    /\ ~ \/ (pos # 0 /\ At(domain_name, pos - 1) # DOT)
         \/ (/\ pos + Len(domain) + 1 < Len(domain_name)
             /\ At(domain_name, pos + Len(domain) + 1) # DOT)

RECURSIVE FirstMatch(_, _, _)
FirstMatch(list, domain_name, k) ==
    IF k > Len(list) THEN 0
    ELSE IF Matches(domain_name, list[k].d) THEN k
    ELSE FirstMatch(list, domain_name, k + 1)

\* encode_domain_name_wrap(domain_name, cl, is_compressed, raw_offset):
\* the bytes to append and the list afterwards
encode_domain_name_wrap(domain_name, list, is_compr, raw_offset) ==
    IF ~is_compr THEN [bytes |-> encode_domain_name(domain_name), cl |-> list]
    ELSE LET k == FirstMatch(list, domain_name, 1) IN
         IF k = 0
         THEN [bytes |-> encode_domain_name(domain_name),
               cl |-> CompressList_push(list, domain_name, raw_offset)]
         ELSE LET domain == list[k].d
                  pos == Find(domain_name, domain)
                  prefix == Slice(domain_name, 0, pos)
                  suffix == Drop(domain_name, pos + Len(domain))
              IN  [bytes |-> (IF Len(prefix) # 0 THEN EncodeUntilEmpty(Split(prefix))
                              ELSE <<>>)
                             \o PointerBytes(list[k].off % 65536)
                             \o (IF Len(suffix) # 0
                                 THEN EncodeUntilEmpty(Split(suffix)) \o << 0 >>
                                 ELSE <<>>),
                   cl |-> CompressList_push(list, domain_name, raw_offset)]

---------------------------------------------------------------------------
(* RDATA encoders (src/src/dns/rdata/*.rs).  Each one is given the length  *)
(* of the output so far (raw.len()), the compression list and the flag,    *)
(* and yields the bytes it appends, the list afterwards and the count `n`  *)
(* it reports to its caller.                                               *)

Encoded(bytes, list, n) == [kind |-> "ok", bytes |-> bytes, cl |-> list, n |-> n]

\* The count RR::encode takes from an encoder whose body in the snapshot
\* returns (): the number of bytes the encoder appended.
ReportedLen(bytes) == Len(bytes)

A_encode(rdata) == Encoded(rdata.addr, <<>>, 4)

\* one domain name appended at raw.len(): NS, MD, CNAME, MG, MR, PTR
Name_encoded(e) == Encoded(e.bytes, e.cl, ReportedLen(e.bytes))

Name_encode(name, rawlen, list, is_compr) ==
    Name_encoded(encode_domain_name_wrap(name, list, is_compr, rawlen))

\* MB::encode, MF::encode: Ok(encoded.len())
NameCounted_encoded(e) == Encoded(e.bytes, e.cl, Len(e.bytes))

NameCounted_encode(name, rawlen, list, is_compr) ==
    NameCounted_encoded(encode_domain_name_wrap(name, list, is_compr, rawlen))

\* MX::encode: the preference, then the exchange at raw.len()
MX_encoded(pref, e) == Encoded(pref \o e.bytes, e.cl, ReportedLen(pref \o e.bytes))

MX_encode(rdata, rawlen, list, is_compr) ==
    MX_encoded(U16Bytes(rdata.preference),
               encode_domain_name_wrap(rdata.exchange, list, is_compr, rawlen + 2))

\* SOA::encode: mname, rname (each at raw.len()), then the five counters
SOA_encoded(rdata, m, r) ==
    Encoded(m.bytes \o r.bytes \o U32Bytes(rdata.serial) \o U32Bytes(rdata.refresh)
                \o U32Bytes(rdata.retry) \o U32Bytes(rdata.expire)
                \o U32Bytes(rdata.minimum),
            r.cl,
            ReportedLen(m.bytes \o r.bytes) + 20)

SOA_rname(rdata, rawlen, is_compr, m) ==
    SOA_encoded(rdata, m,
                encode_domain_name_wrap(rdata.rname, m.cl, is_compr, rawlen + Len(m.bytes)))

SOA_encode(rdata, rawlen, list, is_compr) ==
    SOA_rname(rdata, rawlen, is_compr,
              encode_domain_name_wrap(rdata.mname, list, is_compr, rawlen))

Bytes_encode(rdata) == Encoded(rdata.bytes, <<>>, ReportedLen(rdata.bytes))

HInfo_encode(rdata) ==
    Encoded(<< Len(rdata.cpu) % 256 >> \o rdata.cpu \o << Len(rdata.os) % 256 >> \o rdata.os,
            <<>>, 1 + Len(rdata.cpu) + 1 + Len(rdata.os))

WKS_encode(rdata) ==
    LET bytes == rdata.addr \o << rdata.protocol >> \o rdata.bit_map
    IN  Encoded(bytes, <<>>, ReportedLen(bytes))

\* the encoders that take no part in compression leave the list alone
KeepList(e, list) == [e EXCEPT !.cl = list]

\* RDataType::encode(raw, cl, is_compressed)
RDataType_encode(rdata, rawlen, list, is_compr) ==
    CASE rdata.tag = "CName" -> Name_encode(rdata.name, rawlen, list, is_compr)
      [] rdata.tag = "HInfo" -> KeepList(HInfo_encode(rdata), list)
      [] rdata.tag = "MB"    -> NameCounted_encode(rdata.name, rawlen, list, is_compr)
      [] rdata.tag = "MD"    -> Name_encode(rdata.name, rawlen, list, is_compr)
      [] rdata.tag = "MF"    -> NameCounted_encode(rdata.name, rawlen, list, is_compr)
      [] rdata.tag = "MG"    -> Name_encode(rdata.name, rawlen, list, is_compr)
      [] rdata.tag = "MR"    -> Name_encode(rdata.name, rawlen, list, is_compr)
      [] rdata.tag = "MX"    -> MX_encode(rdata, rawlen, list, is_compr)
      [] rdata.tag = "Null"  -> KeepList(Bytes_encode(rdata), list)
      [] rdata.tag = "NS"    -> Name_encode(rdata.name, rawlen, list, is_compr)
      [] rdata.tag = "PTR"   -> Name_encode(rdata.name, rawlen, list, is_compr)
      [] rdata.tag = "SOA"   -> SOA_encode(rdata, rawlen, list, is_compr)
      [] rdata.tag = "TXT"   -> KeepList(Bytes_encode(rdata), list)
      [] rdata.tag = "A"     -> KeepList(A_encode(rdata), list)
      [] rdata.tag = "WKS"   -> KeepList(WKS_encode(rdata), list)
      [] OTHER               -> [kind |-> "err", bytes |-> <<>>, cl |-> list, n |-> 0]

---------------------------------------------------------------------------
(* Question and resource record, encode side.                              *)

\* Question::encode: the labels, the zero octet, QTYPE, QCLASS
Question_encode(q) ==
    LabelsBytes(q.qname) \o << 0 >> \o U16Bytes(q.qtype) \o U16Bytes(q.qclass)

\* Questions::encode(raw, cl): every question in order; the name of each is
\* entered in the compression list at the offset it was written at
RECURSIVE Questions_encode(_, _, _)
Questions_encode(ques, out0, list) ==
    IF Len(ques) = 0 THEN [bytes |-> out0, cl |-> list]
    ELSE Questions_encode(Tail(ques), out0 \o Question_encode(ques[1]),
                          CompressList_push(list, Join(ques[1].qname), Len(out0)))

\* ResourceRecord::encode(raw, cl, is_compressed): the owner name, TYPE,
\* CLASS, TTL, a two-byte placeholder, the RDATA, then RDLENGTH written over
\* the placeholder from the count the RDATA encoder reported
RR_encode_patch(fixed, e) ==
    IF e.kind # "ok" THEN [kind |-> "err", bytes |-> fixed \o << 0, 0 >>, cl |-> e.cl]
    ELSE [kind |-> "ok", bytes |-> fixed \o U16Bytes(e.n % 65536) \o e.bytes, cl |-> e.cl]

RR_encode_rdata(rr, fixed, is_compr, nm) ==
    RR_encode_patch(fixed, RDataType_encode(rr.rdata, Len(fixed) + 2, nm.cl, is_compr))

RR_encode_fixed(rr, out0, is_compr, nm) ==
    RR_encode_rdata(rr,
                    out0 \o nm.bytes \o U16Bytes(rr.typ) \o U16Bytes(rr.class)
                        \o U32Bytes(rr.ttl),
                    is_compr, nm)

RR_encode(rr, out0, list, is_compr) ==
    RR_encode_fixed(rr, out0, is_compr,
                    encode_domain_name_wrap(rr.name, list, is_compr, Len(out0)))

\* RRs::encode: for rr in self.0 { rr.encode(raw, cl, is_compressed)? }
RECURSIVE RRs_encode(_, _, _, _)
RECURSIVE RRs_encode_next(_, _, _)
RRs_encode_next(rrs, is_compr, e) ==
    IF e.kind # "ok" THEN e
    ELSE RRs_encode(Tail(rrs), e.bytes, e.cl, is_compr)

RRs_encode(rrs, out0, list, is_compr) ==
    IF Len(rrs) = 0 THEN [kind |-> "ok", bytes |-> out0, cl |-> list]
    ELSE RRs_encode_next(rrs, is_compr, RR_encode(rrs[1], out0, list, is_compr))

---------------------------------------------------------------------------
(* Message encode (src/src/dns/dns.rs, DNS::encode).                       *)

\* a variant of encode that starts from the header as it is
SetCounts_stale(m) == m.head

\* the four with_*count calls at the head of DNS::encode (len() as u16)
SetCounts(m) ==
    with_arcount(
        with_nscount(
            with_ancount(
                with_qdcount(m.head, Len(m.ques) % 65536),
                Len(m.answers) % 65536),
            Len(m.authority) % 65536),
        Len(m.additional) % 65536)

\* DNS::encode(is_compressed): the result, and the header the message is
\* left with (the counts are stored before anything can fail)
DNS_encode_additional(head, ar) ==
    IF ar.kind # "ok" THEN [kind |-> "err", bytes |-> <<>>, head |-> head]
    ELSE [kind |-> "ok", bytes |-> ar.bytes, head |-> head]

DNS_encode_authority(m, is_compr, head, ns) ==
    IF ns.kind # "ok" THEN [kind |-> "err", bytes |-> <<>>, head |-> head]
    ELSE DNS_encode_additional(head, RRs_encode(m.additional, ns.bytes, ns.cl, is_compr))

DNS_encode_answers(m, is_compr, head, an) ==
    IF an.kind # "ok" THEN [kind |-> "err", bytes |-> <<>>, head |-> head]
    ELSE DNS_encode_authority(m, is_compr, head,
                              RRs_encode(m.authority, an.bytes, an.cl, is_compr))

DNS_encode_questions(m, is_compr, head, qs) ==
    DNS_encode_answers(m, is_compr, head, RRs_encode(m.answers, qs.bytes, qs.cl, is_compr))

DNS_encode_head(m, is_compr, head) ==
    DNS_encode_questions(m, is_compr, head, Questions_encode(m.ques, head, <<>>))

DNS_encode(m, is_compr) == DNS_encode_head(m, is_compr, SetCounts(m))

---------------------------------------------------------------------------
(* The parts of the state a specification does not use stay at these.      *)

IdleCodec ==
    raw = <<>> /\ pc = "idle" /\ dns = <<>> /\ edits = 0 /\ encFlag = FALSE /\ out = <<>>

IdleHeader == hdr = <<>> /\ prevHdr = <<>> /\ lastOp = [f |-> "none", v |-> 0] /\ calls = 0

IdleNames == buf = <<>> /\ cl = <<>> /\ written = <<>>

codecVars == <<raw, pc, dns, edits, encFlag, out>>

headerVars == <<hdr, prevHdr, lastOp, calls>>

namesVars == <<buf, cl, written>>

IdleOpt ==
    prr = <<>> /\ prevPrr = <<>> /\ prrOp = [f |-> "none", v |-> 0, ret |-> 0] /\ prrCalls = 0

optVars == <<prr, prevPrr, prrOp, prrCalls>>

\* the parts of the state used by none of the codec, header and names
\* specifications
IdleTree ==
    tree = <<>> /\ pushed = {} /\ expected = <<>> /\ lookup = <<>> /\ treeOps = 0

treeVars == <<tree, pushed, expected, lookup, treeOps>>

IdleLabel ==
    input = <<>> /\ nameRes = <<>> /\ quesRes = <<>>

labelVars == <<input, nameRes, quesRes>>

IdleServe ==
    protocol = "none" /\ inbox = <<>> /\ servePc = "idle" /\ tasks = <<>> /\ sent = <<>> /\ received = <<>>

serveVars == <<protocol, inbox, servePc, tasks, sent, received>>

IdleForward ==
    fwdProtocol = "none" /\ fwdDns = <<>> /\ fwdPc = "idle" /\ upstream = <<>> /\ fwdReply = <<>> /\ fwdRes = <<>> /\ elapsed = 0

forwardVars == <<fwdProtocol, fwdDns, fwdPc, upstream, fwdReply, fwdRes, elapsed>>

IdleLookups ==
    zone = <<>> /\ borrow = <<>> /\ task = <<>>

lookupsVars == <<zone, borrow, task>>

IdleRecord ==
    wire = <<>> /\ wireAt = 0 /\ nameAt = <<>> /\ rrAt = <<>>

recordVars == <<wire, wireAt, nameAt, rrAt>>

IdleEncode ==
    encRR = <<>> /\ encOut = <<>>

encodeVars == <<encRR, encOut>>

IdleRdata ==
    rdTyp = 0 /\ rdBytes = <<>> /\ rdVal = <<>> /\ rdStrs = <<>> /\ rdOut = <<>>

rdataVars == <<rdTyp, rdBytes, rdVal, rdStrs, rdOut>>

IdleMaster ==
    mfFile = <<>> /\ mfRrs = <<>> /\ mfPc = "idle" /\ mfBack = <<>>

masterVars == <<mfFile, mfRrs, mfPc, mfBack>>

IdleBack ==
    nameBack = <<>>

backVars == <<nameBack>>

IdleSort ==
    sortRRs = <<>> /\ sortDone = FALSE

sortVars == <<sortRRs, sortDone>>

IdleLater == IdleOpt /\ IdleTree /\ IdleLabel /\ IdleServe /\ IdleForward /\ IdleLookups /\ IdleRecord /\ IdleEncode /\ IdleRdata /\ IdleMaster /\ IdleBack /\ IdleSort

laterVars == <<optVars, treeVars, labelVars, serveVars, forwardVars, lookupsVars, recordVars, encodeVars, rdataVars, masterVars, backVars, sortVars>>

---------------------------------------------------------------------------
(* SpecHeader: a Header and its thirteen setters.                          *)

\* the number of setter calls followed from each starting header
MaxCalls == 2

\* the starting headers: all bits clear, all bits set, two alternating bit
\* patterns, and the header of a recorded response
HeaderInputs ==
    { [i \in 1..12 |-> 0],
      [i \in 1..12 |-> 255],
      [i \in 1..12 |-> IF i % 2 = 1 THEN 170 ELSE 85],
      [i \in 1..12 |-> IF i % 2 = 1 THEN 85 ELSE 170],
      <<59, 30, 129, 128, 0, 1, 0, 0, 0, 1, 0, 0>> }

\* the arguments tried for each setter: u16 for id and the counts, bool for
\* the flags, u8 (in and out of the field's range) for opcode, z and rcode
SetterValues(f) ==
    CASE f \in {"id", "qdcount", "ancount", "nscount", "arcount"} -> {0, 4660, 65535}
      [] f \in {"qr", "aa", "tc", "rd", "ra"} -> BOOLEAN
      [] f = "opcode" -> {0, 5, 15, 16, 255}
      [] f = "z" -> {0, 5, 7, 8, 255}
      [] f = "rcode" -> {0, 9, 15, 16, 255}

\* the values a field can hold
ValidFor(f, v) ==
    CASE f = "opcode" -> v <= 15
      [] f = "z" -> v <= 7
      [] f = "rcode" -> v <= 15
      [] OTHER -> TRUE

InitHeader ==
    /\ hdr \in HeaderInputs
    /\ prevHdr = hdr
    /\ lastOp = [f |-> "none", v |-> 0]
    /\ calls = 0
    /\ IdleCodec
    /\ IdleNames
    /\ IdleLater

\* one setter call: the header before it, the call, the header after it
Called(f, v, h) ==
    /\ prevHdr' = hdr
    /\ hdr' = h
    /\ lastOp' = [f |-> f, v |-> v]
    /\ calls' = calls + 1
    /\ UNCHANGED <<codecVars, namesVars, laterVars>>

WithId ==
    \E v \in SetterValues("id") :
        /\ calls < MaxCalls
        /\ Called("id", v, with_id(hdr, v))

WithQr ==
    \E v \in SetterValues("qr") :
        /\ calls < MaxCalls
        /\ Called("qr", v, with_qr(hdr, v))

WithOpcode ==
    \E v \in SetterValues("opcode") :
        /\ calls < MaxCalls
        /\ Called("opcode", v, with_opcode(hdr, v))

WithAa ==
    \E v \in SetterValues("aa") :
        /\ calls < MaxCalls
        /\ Called("aa", v, with_aa(hdr, v))

WithTc ==
    \E v \in SetterValues("tc") :
        /\ calls < MaxCalls
        /\ Called("tc", v, with_tc(hdr, v))

WithRd ==
    \E v \in SetterValues("rd") :
        /\ calls < MaxCalls
        /\ Called("rd", v, with_rd(hdr, v))

WithRa ==
    \E v \in SetterValues("ra") :
        /\ calls < MaxCalls
        /\ Called("ra", v, with_ra(hdr, v))

WithZ ==
    \E v \in SetterValues("z") :
        /\ calls < MaxCalls
        /\ Called("z", v, with_z(hdr, v))

WithRcode ==
    \E v \in SetterValues("rcode") :
        /\ calls < MaxCalls
        /\ Called("rcode", v, with_rcode(hdr, v))

WithQdcount ==
    \E v \in SetterValues("qdcount") :
        /\ calls < MaxCalls
        /\ Called("qdcount", v, with_qdcount(hdr, v))

WithAncount ==
    \E v \in SetterValues("ancount") :
        /\ calls < MaxCalls
        /\ Called("ancount", v, with_ancount(hdr, v))

WithNscount ==
    \E v \in SetterValues("nscount") :
        /\ calls < MaxCalls
        /\ Called("nscount", v, with_nscount(hdr, v))

WithArcount ==
    \E v \in SetterValues("arcount") :
        /\ calls < MaxCalls
        /\ Called("arcount", v, with_arcount(hdr, v))

NextHeader ==
    \/ WithId \/ WithQr \/ WithOpcode \/ WithAa \/ WithTc \/ WithRd \/ WithRa
    \/ WithZ \/ WithRcode \/ WithQdcount \/ WithAncount \/ WithNscount \/ WithArcount

SpecHeader == InitHeader /\ [][NextHeader]_vars

\* C8: after with_f(v) with v valid for f, the getter f() returns v and every
\* other getter returns what it returned before the call.
C8_SetterFrame ==
    (lastOp.f \in Fields /\ ValidFor(lastOp.f, lastOp.v)) =>
        /\ Get(hdr, lastOp.f) = lastOp.v
        /\ \A g \in Fields \ {lastOp.f} : Get(hdr, g) = Get(prevHdr, g)

\* a call of with_z that changed Z in a header whose RA bit is set
C8_Witness ==
    /\ lastOp.f = "z"
    /\ lastOp.v = 5
    /\ z(prevHdr) # 5
    /\ ra(prevHdr)
    /\ z(hdr) = 5

\* C9: with_opcode(v > 15), with_z(v > 7) and with_rcode(v > 15) leave all
\* twelve header bytes as they were.
C9_OutOfRangeIgnored ==
    (lastOp.f \in {"opcode", "z", "rcode"} /\ ~ValidFor(lastOp.f, lastOp.v)) =>
        hdr = prevHdr

\* with_opcode(16) on a header whose opcode bits are not all clear
C9_Witness ==
    /\ lastOp.f = "opcode"
    /\ lastOp.v = 16
    /\ opcode(prevHdr) # 0
    /\ hdr = prevHdr

---------------------------------------------------------------------------
(* SpecNames: the names of one message encode with compression enabled,   *)
(* written one after the other through encode_domain_name_wrap into the   *)
(* same buffer against the same CompressList.                             *)

\* the number of names written into one message
MaxNames == 3

\* "a", "bb", "cc" as label bytes
LabelA == <<97>>

LabelBB == <<98, 98>>

LabelCC == <<99, 99>>

\* the names written: a.bb.cc and names sharing labels with it, and the root
NameInputs ==
    { Join(<<LabelA, LabelBB, LabelCC>>),
      Join(<<LabelBB, LabelCC>>),
      Join(<<LabelA, LabelBB>>),
      Join(<<LabelCC>>),
      Join(<<LabelBB, LabelA, LabelBB, LabelCC>>),
      <<>> }

\* the labels of a name given as a string; the root has none
LabelsOf(name) == IF Len(name) = 0 THEN <<>> ELSE Split(name)

\* TYPE, CLASS, TTL and RDLENGTH of a record, as they follow an owner name
FixedFields == <<0, 2, 0, 1, 0, 0, 0, 0, 0, 0>>

InitNames ==
    /\ buf = [i \in 1..12 |-> 0]
    /\ cl = <<>>
    /\ written = <<>>
    /\ IdleCodec
    /\ IdleHeader
    /\ IdleLater

\* one call of encode_domain_name_wrap at raw.len(), the caller appending
\* the bytes it returns and then `rest`
Write(name, rest) ==
    LET e == encode_domain_name_wrap(name, cl, TRUE, Len(buf)) IN
    /\ buf' = buf \o e.bytes \o rest
    /\ cl' = e.cl
    /\ written' = Append(written, [name |-> name, pos |-> Len(buf)])
    /\ UNCHANGED <<codecVars, headerVars, laterVars>>

\* ResourceRecord::encode up to the RDATA: the owner name and the fixed fields
WriteOwner ==
    \E name \in NameInputs :
        /\ Len(written) < MaxNames
        /\ Write(name, FixedFields)

\* a name inside RDATA (NS, CNAME, ...): the name alone
WriteRDataName ==
    \E name \in NameInputs :
        /\ Len(written) < MaxNames
        /\ Write(name, <<>>)

NextNames == WriteOwner \/ WriteRDataName

SpecNames == InitNames /\ [][NextNames]_vars

\* the name decoded at position pos of the buffer is exactly `name`
DecodesTo(b, pos, name) ==
    LET lb == Labels_parse(b, pos) IN
    lb.kind = "ok" /\ lb.labels = LabelsOf(name)

\* C2: every name written by encode_domain_name_wrap with compression
\* enabled decodes, at the position it was written at, to its own labels.
C2_WrittenNamesDecode ==
    \A i \in 1..Len(written) : DecodesTo(buf, written[i].pos, written[i].name)

---------------------------------------------------------------------------
(* Spec: DNS::from on a bounded family of byte strings, the calls that     *)
(* change the parsed message, and DNS::encode.                             *)

\* the number of resource records in an input message
MaxRRs == 2

\* the number of calls changing the message between DNS::from and DNS::encode
MaxEdits == 1

\* the number of bytes cut from the end of an input message
MaxCut == 1

HeaderBytes(qd, an, ns, ar) ==
    <<0, 0, 0, 0>> \o U16Bytes(qd) \o U16Bytes(an) \o U16Bytes(ns) \o U16Bytes(ar)

\* the question section of an input: none; the question bb.cc A IN; a
\* question whose name is a pointer to offset 0
QuestionInputs ==
    { <<>>,
      <<2, 98, 98, 2, 99, 99, 0, 0, 1, 0, 1>>,
      <<192, 0, 0, 1>> }

\* the owner name of an input record that starts at offset pos
OwnerKinds == {"ptr12", "inline", "root", "self", "forward", "pastend", "badutf"}

OwnerBytes(kind, pos) ==
    CASE kind = "ptr12"   -> <<192, 12>>
      [] kind = "inline"  -> <<2, 99, 99, 0>>
      [] kind = "root"    -> <<0>>
      [] kind = "self"    -> PointerBytes(pos)
      [] kind = "forward" -> PointerBytes(pos + 4)
      [] kind = "pastend" -> <<255, 255>>
      [] kind = "badutf"  -> <<1, 255, 0>>

RDataInput(typ, rdlength, rdata) == [typ |-> typ, rdlength |-> rdlength, rdata |-> rdata]

PlainA == RDataInput(TYPE_A, 4, <<1, 2, 3, 4>>)

NSPointer == RDataInput(TYPE_NS, 2, <<192, 12>>)

\* TYPE, RDLENGTH and RDATA of an input record: well-formed ones of the
\* supported types, ones whose RDLENGTH is longer or shorter than the type's
\* fields, and one of a TYPE the code has no variant for
RDataInputs ==
    { PlainA,
      RDataInput(TYPE_A, 5, <<1, 2, 3, 4, 5>>),
      RDataInput(TYPE_A, 3, <<1, 2, 3>>),
      RDataInput(TYPE_A, 9, <<1, 2, 3, 4>>),
      NSPointer,
      RDataInput(TYPE_NS, 3, <<1, 97, 0>>),
      RDataInput(TYPE_NS, 0, <<>>),
      RDataInput(TYPE_CNAME, 2, <<192, 12>>),
      RDataInput(TYPE_MX, 4, <<0, 10, 192, 12>>),
      RDataInput(TYPE_MX, 1, <<0>>),
      RDataInput(TYPE_SOA, 2, <<0, 0>>),
      RDataInput(TYPE_TXT, 2, <<1, 120>>),
      RDataInput(TYPE_NULL, 1, <<7>>),
      RDataInput(TYPE_HINFO, 4, <<1, 120, 1, 121>>),
      RDataInput(TYPE_WKS, 6, <<1, 2, 3, 4, 6, 128>>),
      RDataInput(99, 2, <<7, 7>>) }

\* the first record of an input, and the records that may follow it
FirstRRs == (OwnerKinds \X {PlainA}) \cup ({"ptr12", "inline"} \X RDataInputs)

FollowRRs == { <<"ptr12", PlainA>>, <<"inline", NSPointer>> }

RRBytes(v, pos) ==
    OwnerBytes(v[1], pos) \o U16Bytes(v[2].typ) \o <<0, 1>> \o <<0, 0, 0, 60>>
        \o U16Bytes(v[2].rdlength) \o v[2].rdata

RRLists ==
    {<<>>} \cup
    UNION { { <<f>> \o t : f \in FirstRRs, t \in [1..n -> FollowRRs] } :
            n \in 0..(MaxRRs - 1) }

RECURSIVE AppendRRs(_, _)
AppendRRs(bytes, list) ==
    IF Len(list) = 0 THEN bytes
    ELSE AppendRRs(bytes \o RRBytes(list[1], Len(bytes)), Tail(list))

\* ANCOUNT, NSCOUNT, ARCOUNT of an input with k records: every way to split
\* the k records over the three sections, and one count too many
CountSplits(k) ==
    { c \in (0..k) \X (0..k) \X (0..k) : c[1] + c[2] + c[3] = k } \cup { <<k + 1, 0, 0>> }

Cut(bytes, n) == SubSeq(bytes, 1, Len(bytes) - n)

Messages ==
    UNION { UNION { { Cut(AppendRRs(HeaderBytes(IF Len(q) = 0 THEN 0 ELSE 1,
                                               c[1], c[2], c[3]) \o q, l), n) :
                      c \in CountSplits(Len(l)), n \in 0..MaxCut } :
                    l \in RRLists } :
            q \in QuestionInputs }

\* ResourceRecord::new(): the empty record, its rdata RDataType::None
RR_new ==
    [name |-> <<>>, typ |-> 0, class |-> 0, ttl |-> <<0, 0, 0, 0>>, rdlength |-> 0,
     rdata |-> [tag |-> "None"]]

\* the records handed to with_answer, with_authority and with_additional:
\* cc A IN 9.9.9.9 built with the with_* setters, and the empty record
AddedRRs ==
    { [name |-> LabelCC, typ |-> TYPE_A, class |-> 1, ttl |-> <<0, 0, 0, 60>>,
       rdlength |-> 0, rdata |-> [tag |-> "A", addr |-> <<9, 9, 9, 9>>]],
      RR_new }

\* the value stored through head().with_*count: a count no section has
CountInputs == {7}

Init ==
    /\ raw \in Messages
    /\ pc = "input"
    /\ dns = <<>>
    /\ edits = 0
    /\ encFlag = FALSE
    /\ out = <<>>
    /\ IdleHeader
    /\ IdleNames
    /\ IdleLater

\* DNS::from(raw)
From ==
    /\ pc = "input"
    /\ dns' = DNS_from(raw)
    /\ pc' = IF dns'.kind = "ok" THEN "parsed" ELSE "failed"
    /\ UNCHANGED <<raw, edits, encFlag, out, headerVars, namesVars, laterVars>>

\* a call that changes the message and leaves it as m
Edited(m) ==
    /\ dns' = m
    /\ edits' = edits + 1
    /\ UNCHANGED <<raw, pc, encFlag, out, headerVars, namesVars, laterVars>>

\* DNS::with_answer(rr): self.answers.extend(rr)
WithAnswer ==
    \E rr \in AddedRRs :
        /\ pc = "parsed" /\ edits < MaxEdits
        /\ Edited([dns EXCEPT !.answers = Append(@, rr)])

WithAuthority ==
    \E rr \in AddedRRs :
        /\ pc = "parsed" /\ edits < MaxEdits
        /\ Edited([dns EXCEPT !.authority = Append(@, rr)])

WithAdditional ==
    \E rr \in AddedRRs :
        /\ pc = "parsed" /\ edits < MaxEdits
        /\ Edited([dns EXCEPT !.additional = Append(@, rr)])

\* dns.head().with_qdcount(v), and the same for the other three counts
HeadWithQdcount ==
    \E v \in CountInputs :
        /\ pc = "parsed" /\ edits < MaxEdits
        /\ Edited([dns EXCEPT !.head = with_qdcount(@, v)])

HeadWithAncount ==
    \E v \in CountInputs :
        /\ pc = "parsed" /\ edits < MaxEdits
        /\ Edited([dns EXCEPT !.head = with_ancount(@, v)])

HeadWithNscount ==
    \E v \in CountInputs :
        /\ pc = "parsed" /\ edits < MaxEdits
        /\ Edited([dns EXCEPT !.head = with_nscount(@, v)])

HeadWithArcount ==
    \E v \in CountInputs :
        /\ pc = "parsed" /\ edits < MaxEdits
        /\ Edited([dns EXCEPT !.head = with_arcount(@, v)])

\* DNS::encode(is_compressed); `before` keeps the header the call found
Encoded_as(flag, e) ==
    /\ out' = [kind |-> e.kind, bytes |-> e.bytes, before |-> dns.head]
    /\ dns' = [dns EXCEPT !.head = e.head]
    /\ encFlag' = flag
    /\ pc' = "encoded"
    /\ UNCHANGED <<raw, edits, headerVars, namesVars, laterVars>>

Encode ==
    \E flag \in BOOLEAN :
        /\ pc = "parsed"
        /\ Encoded_as(flag, DNS_encode(dns, flag))

Next ==
    \/ From
    \/ WithAnswer \/ WithAuthority \/ WithAdditional
    \/ HeadWithQdcount \/ HeadWithAncount \/ HeadWithNscount \/ HeadWithArcount
    \/ Encode

Spec == Init /\ [][Next]_vars

\* DNS::from has returned (Ok or Err) or has ended in a panic or a stack
\* overflow, and nothing has changed the message since
Parsed == pc = "parsed" /\ edits = 0

\* C1: when DNS::from(raw) succeeds with message m, m.encode(m.is_compressed())
\* returns exactly the bytes of raw that the parse consumed.
C1_RoundTrip ==
    (pc = "encoded" /\ edits = 0 /\ encFlag = dns.is_compressed) =>
        (out.kind = "ok" /\ out.bytes = Slice(raw, 0, dns.offset))

\* C3: DNS::from never panics: for every input it returns Ok or Err.
C3_FromReturns == pc # "input" => dns.kind \in {"ok", "err"}

\* C4: name decoding returns an error whenever it reads a compression pointer
\* whose target offset is not below the position of the pointer itself.
C4_BadPointerRejected == (pc # "input" /\ dns.bad) => dns.kind = "err"

\* C5: whenever DNS::from returns Ok(m), the numbers of questions, answers,
\* authority and additional records of m equal the four counts of m's header.
C5_SectionCounts ==
    Parsed =>
        /\ Len(dns.ques) = qdcount(dns.head)
        /\ Len(dns.answers) = ancount(dns.head)
        /\ Len(dns.authority) = nscount(dns.head)
        /\ Len(dns.additional) = arcount(dns.head)

\* a parsed message with a question, an answer and an authority record
C5_Witness ==
    /\ Parsed
    /\ Len(dns.ques) = 1
    /\ Len(dns.answers) = 1
    /\ Len(dns.authority) = 1
    /\ Len(dns.additional) = 0

\* C6: after a successful DNS::from, is_compressed() is true if and only if
\* a compression pointer was followed while parsing some name of the message.
C6_FlagIffPointerFollowed == Parsed => (dns.is_compressed <=> dns.ptr)

\* the types RDataType::from has an arm for
SupportedTypes ==
    {TYPE_A, TYPE_NS, TYPE_MD, TYPE_MF, TYPE_CNAME, TYPE_SOA, TYPE_MB, TYPE_MG, TYPE_MR,
     TYPE_NULL, TYPE_WKS, TYPE_PTR, TYPE_HINFO, TYPE_MINFO, TYPE_MX, TYPE_TXT}

\* b is a header announcing one answer and nothing else, followed by exactly
\* one record with the owner name cc written in full, of a TYPE outside the
\* supported ones, whose RDATA ends the message
OneUnsupportedRecord(b) ==
    /\ Len(b) >= 26
    /\ Slice(b, 0, 16) = HeaderBytes(0, 1, 0, 0) \o OwnerBytes("inline", 12)
    /\ U16(At(b, 16), At(b, 17)) \notin SupportedTypes
    /\ Len(b) = 26 + U16(At(b, 24), At(b, 25))

\* C7: decoding a record whose TYPE is not a supported one succeeds and keeps
\* its RDLENGTH bytes of RDATA, and re-encoding the record emits those bytes.
C7_UnsupportedTypeKept ==
    (pc # "input" /\ OneUnsupportedRecord(raw)) =>
        /\ dns.kind = "ok"
        /\ Len(dns.answers) = 1
        /\ dns.answers[1].rdlength = Len(raw) - 26
        /\ (pc = "encoded" /\ edits = 0) =>
               (out.kind = "ok" /\ Drop(out.bytes, Len(out.bytes) - (Len(raw) - 26))
                                       = Drop(raw, 26))

\* C10: in the output of DNS::encode bytes 4..11 are the big-endian lengths of
\* the four sections at the time of the call, whatever counts the header held
\* before, and the header's count getters return those lengths afterwards.
C10_EncodeSetsCounts ==
    pc = "encoded" =>
        /\ qdcount(dns.head) = Len(dns.ques)
        /\ ancount(dns.head) = Len(dns.answers)
        /\ nscount(dns.head) = Len(dns.authority)
        /\ arcount(dns.head) = Len(dns.additional)
        /\ out.kind = "ok" =>
               Slice(out.bytes, 4, 12) =
                   U16Bytes(Len(dns.ques)) \o U16Bytes(Len(dns.answers))
                       \o U16Bytes(Len(dns.authority)) \o U16Bytes(Len(dns.additional))

\* an encode that succeeded on a message whose header held an answer count
\* different from the number of its answers
C10_Witness ==
    /\ pc = "encoded"
    /\ out.kind = "ok"
    /\ ancount(out.before) # Len(dns.answers)
    /\ Len(dns.answers) > 0

---------------------------------------------------------------------------
(* The OPT overlay (src/src/dns/pseudo_rr.rs): PseudoRR wraps a            *)
(* ResourceRecord and reads CLASS as the UDP payload size and the four     *)
(* TTL bytes as extended RCODE, version, and DO bit with Z.  `rr` below is *)
(* the wrapped record, of which the overlay touches typ, class and ttl.    *)

TYPE_OPT == 41

\* the bitwise | of two bytes
RECURSIVE BitOr(_, _)
BitOr(a, b) ==
    IF a = 0 THEN b
    ELSE IF b = 0 THEN a
    ELSE (IF a % 2 = 1 \/ b % 2 = 1 THEN 1 ELSE 0) + 2 * BitOr(a \div 2, b \div 2)

udp_payload(rr) == IF rr.typ # TYPE_OPT THEN 0 ELSE rr.class

with_udp_payload(rr, payload) ==
    IF rr.typ # TYPE_OPT THEN rr ELSE [rr EXCEPT !.class = payload]

\* PseudoRR::rcode(head_rcode)
PseudoRR_rcode(rr, head_rcode) ==
    IF rr.typ # TYPE_OPT THEN 0
    ELSE LET ext_rcode == At(U32Bytes(rr.ttl), 0)
             lower4_ext_rcode == ext_rcode % 16
             new_head_rcode == BitOr(head_rcode, (lower4_ext_rcode * 16) % 256)
             new_extend_rcode == ext_rcode \div 16
         IN  U16(new_extend_rcode, new_head_rcode)

\* a variant of with_rcode that keeps the low byte's high nibble only
PseudoRR_with_rcode_low_byte(rr, code) ==
    [rr  |-> [rr EXCEPT !.ttl = [U32Bytes(rr.ttl) EXCEPT ![1] = (code % 256) \div 16]],
     ret |-> (code % 256) % 16]

\* PseudoRR::with_rcode(rcode): the record afterwards and the u8 returned
PseudoRR_with_rcode(rr, code) ==
    LET codes == U16Bytes(code)
        head_rcode == codes[2]
        high4_head_rcode == (head_rcode \div 16) * 16
        low4_ext_rcode == (codes[1] * 16) % 256
        new_ext_rcode == BitOr(low4_ext_rcode, high4_head_rcode \div 16)
    IN  [rr  |-> [rr EXCEPT !.ttl = U32([U32Bytes(rr.ttl) EXCEPT ![1] = new_ext_rcode])],
         ret |-> head_rcode % 16]

version(rr) == IF rr.typ # TYPE_OPT THEN 0 ELSE At(U32Bytes(rr.ttl), 1)

with_version(rr, v) ==
    IF rr.typ # TYPE_OPT THEN rr
    ELSE [rr EXCEPT !.ttl = U32([U32Bytes(rr.ttl) EXCEPT ![2] = v])]

\* PseudoRR::z: the last two TTL bytes without the DO bit
PseudoRR_z(rr) ==
    IF rr.typ # TYPE_OPT THEN 0
    ELSE U16(At(U32Bytes(rr.ttl), 2) % 128, At(U32Bytes(rr.ttl), 3))

\* PseudoRR::with_z(z): (ttl[2], ttl[3]) = (zs[0] & 0b0111_1111, zs[1])
PseudoRR_with_z(rr, v) ==
    IF rr.typ # TYPE_OPT THEN rr
    ELSE IF v > 65535 \div 2 THEN rr
    ELSE [rr EXCEPT !.ttl = U32([U32Bytes(rr.ttl) EXCEPT ![3] = U16Bytes(v)[1] % 128,
                                                         ![4] = U16Bytes(v)[2]])]

dnssec_ok(rr) == Bit(At(U32Bytes(rr.ttl), 2), 7) = 1

with_dnssec_ok(rr, ok) ==
    [rr EXCEPT !.ttl = U32([U32Bytes(rr.ttl) EXCEPT ![3] =
                               IF ok THEN SetBit1(@, 7) ELSE SetBit0(@, 7)])]

---------------------------------------------------------------------------
(* SpecOpt: a PseudoRR and its five setters.                               *)

\* the number of overlay setter calls followed from each starting record
MaxOptCalls == 2

\* the starting records: OPT and A records with the TTLs of the tests
\* (0, u32::MAX / 2, u32::MAX) and one with only the DO bit set
OptInputs ==
    [typ : {TYPE_OPT, TYPE_A},
     class : {0, 512},
     ttl : { <<0, 0, 0, 0>>, <<127, 255, 255, 255>>, <<255, 255, 255, 255>>,
             <<0, 0, 128, 0>> }]

\* the arguments tried for each setter
OptValues(f) ==
    CASE f = "udp_payload" -> {512, 4096}
      [] f = "rcode" -> {0, 15, 16, 255, 256, 2044, 4092, 4095, 4096, 65535}
      [] f = "version" -> {0, 155}
      [] f = "z" -> {0, 5, 16383, 32767, 32768, 65535}
      [] f = "dnssec_ok" -> BOOLEAN

InitOpt ==
    /\ prr \in OptInputs
    /\ prevPrr = prr
    /\ prrOp = [f |-> "none", v |-> 0, ret |-> 0]
    /\ prrCalls = 0
    /\ IdleCodec
    /\ IdleHeader
    /\ IdleNames
    /\ IdleTree
    /\ IdleLabel
    /\ IdleServe
    /\ IdleForward
    /\ IdleLookups
    /\ IdleRecord
    /\ IdleEncode
    /\ IdleRdata
    /\ IdleMaster
    /\ IdleBack
    /\ IdleSort

\* one setter call: the record before it, the call, the record after it
OptCalled(f, v, rr, ret) ==
    /\ prevPrr' = prr
    /\ prr' = rr
    /\ prrOp' = [f |-> f, v |-> v, ret |-> ret]
    /\ prrCalls' = prrCalls + 1
    /\ UNCHANGED <<codecVars, headerVars, namesVars, treeVars, labelVars, serveVars, forwardVars, lookupsVars, recordVars, encodeVars, rdataVars, masterVars, backVars, sortVars>>

OptWithUdpPayload ==
    \E v \in OptValues("udp_payload") :
        /\ prrCalls < MaxOptCalls
        /\ OptCalled("udp_payload", v, with_udp_payload(prr, v), 0)

OptRcodeCalled(v, w) == OptCalled("rcode", v, w.rr, w.ret)

OptWithRcode ==
    \E v \in OptValues("rcode") :
        /\ prrCalls < MaxOptCalls
        /\ OptRcodeCalled(v, PseudoRR_with_rcode(prr, v))

OptWithVersion ==
    \E v \in OptValues("version") :
        /\ prrCalls < MaxOptCalls
        /\ OptCalled("version", v, with_version(prr, v), 0)

OptWithZ ==
    \E v \in OptValues("z") :
        /\ prrCalls < MaxOptCalls
        /\ OptCalled("z", v, PseudoRR_with_z(prr, v), 0)

OptWithDnssecOk ==
    \E v \in OptValues("dnssec_ok") :
        /\ prrCalls < MaxOptCalls
        /\ OptCalled("dnssec_ok", v, with_dnssec_ok(prr, v), 0)

NextOpt ==
    \/ OptWithUdpPayload \/ OptWithRcode \/ OptWithVersion \/ OptWithZ \/ OptWithDnssecOk

SpecOpt == InitOpt /\ [][NextOpt]_vars

\* C11: on an OPT record, with_rcode(r) for a 12-bit r returns the low 4
\* bits of r and stores the high 8 bits of r in the top TTL byte, rcode of the
\* returned value then gives r back, and for every header RCODE h in 0..15
\* rcode(h) is 16 * (top TTL byte) + h.
C11_ExtendedRcode ==
    prr.typ = TYPE_OPT =>
        /\ (prrOp.f = "rcode" /\ prrOp.v <= 4095) =>
               /\ prrOp.ret = prrOp.v % 16
               /\ At(U32Bytes(prr.ttl), 0) = prrOp.v \div 16
               /\ PseudoRR_rcode(prr, prrOp.ret) = prrOp.v
        /\ \A h \in 0..15 : PseudoRR_rcode(prr, h) = 16 * At(U32Bytes(prr.ttl), 0) + h

\* with_rcode(2044) on an OPT record whose top TTL byte was not 127
C11_Witness ==
    /\ prr.typ = TYPE_OPT
    /\ prrOp.f = "rcode"
    /\ prrOp.v = 2044
    /\ prrOp.ret = 12
    /\ At(U32Bytes(prevPrr.ttl), 0) # 127

\* the overlay fields of a record, by the getters (the extended RCODE byte
\* has no getter of its own: it is the first TTL byte)
OverlayFields(rr) ==
    [udp_payload |-> udp_payload(rr),
     rcode       |-> At(U32Bytes(rr.ttl), 0),
     version     |-> version(rr),
     z           |-> PseudoRR_z(rr),
     dnssec_ok   |-> dnssec_ok(rr)]

\* the value the getter of field f is to return after the setter was given v
OverlaySet(f, v) == IF f = "rcode" THEN (v \div 16) % 256 ELSE v

\* C12: on an OPT record each overlay setter (with_z for z <= 32767 only)
\* changes only its own field: its getter returns the value set and the other
\* overlay fields are as they were before the call.
C12_OverlayFrame ==
    (/\ prr.typ = TYPE_OPT
     /\ prrOp.f # "none"
     /\ prrOp.f = "z" => prrOp.v <= 32767) =>
        /\ OverlayFields(prr)[prrOp.f] = OverlaySet(prrOp.f, prrOp.v)
        /\ \A g \in DOMAIN OverlayFields(prr) \ {prrOp.f} :
               OverlayFields(prr)[g] = OverlayFields(prevPrr)[g]

---------------------------------------------------------------------------
(* The zone store (src/src/components/name_server/zones/domain_tree.rs).   *)
(* A DomainTree node is [owner, leaves, rr]: owner a string, leaves the    *)
(* sequence of child nodes, rr the Option<RcRf<RR>> as a sequence that is  *)
(* empty for None and holds the record for Some.                           *)

\* DomainTree::new()
DomainTree_new == [owner |-> << DOT >>, leaves |-> <<>>, rr |-> <<>>]

\* domain.contains(".")
ContainsDot(domain) == \E i \in 1..Len(domain) : domain[i] = DOT

\* the index (1-based) of the last '.' of a string that contains one
RECURSIVE LastDot(_, _)
LastDot(domain, i) == IF domain[i] = DOT THEN i ELSE LastDot(domain, i - 1)

\* domain.rsplitn(2, "."): first the part after the last '.', then the rest
RSplitFirst(domain) == SubSeq(domain, LastDot(domain, Len(domain)) + 1, Len(domain))

RSplitRest(domain) == SubSeq(domain, 1, LastDot(domain, Len(domain)) - 1)

\* self.leaves.sort_by(|a, b| a.owner.cmp(&b.owner)): a stable sort
RECURSIVE InsertByOwner(_, _)
InsertByOwner(sorted, e) ==
    IF Len(sorted) = 0 THEN << e >>
    ELSE IF StrCmp(sorted[1].owner, e.owner) <= 0
    THEN << sorted[1] >> \o InsertByOwner(Tail(sorted), e)
    ELSE << e >> \o sorted

RECURSIVE SortByOwner(_)
SortByOwner(leaves) ==
    IF Len(leaves) = 0 THEN <<>>
    ELSE InsertByOwner(SortByOwner(SubSeq(leaves, 1, Len(leaves) - 1)), leaves[Len(leaves)])

\* self.leaves.binary_search_by(|probe| probe.owner.cmp(name)): the index
\* (1-based) of the leaf the loop of the standard library stops at, 0 for Err
RECURSIVE SearchOwner(_, _, _, _)
SearchOwner(leaves, name, left, right) ==
    IF left >= right THEN 0
    ELSE LET mid == left + (right - left) \div 2
             c == StrCmp(leaves[mid + 1].owner, name)
         IN  IF c = 0 THEN mid + 1
             ELSE IF c < 0 THEN SearchOwner(leaves, name, mid + 1, right)
             ELSE SearchOwner(leaves, name, left, mid)

FindLeaf(node, name) == SearchOwner(node.leaves, name, 0, Len(node.leaves))

NewLeaf(owner) == [owner |-> owner, leaves |-> <<>>, rr |-> <<>>]

\* DomainTree::push(domain)
RECURSIVE DomainTree_push(_, _)
DomainTree_push(node, domain) ==
    IF ~ContainsDot(domain)
    THEN [node EXCEPT !.leaves = SortByOwner(Append(@, NewLeaf(domain)))]
    ELSE LET pos == FindLeaf(node, RSplitFirst(domain)) IN
         IF pos # 0
         THEN [node EXCEPT !.leaves[pos] = DomainTree_push(@, RSplitRest(domain))]
         ELSE [node EXCEPT !.leaves =
                   SortByOwner(Append(@, DomainTree_push(NewLeaf(RSplitFirst(domain)),
                                                         RSplitRest(domain))))]

\* DomainTree::set_rr(domain, rr)
RECURSIVE DomainTree_set_rr(_, _, _)
DomainTree_set_rr(node, domain, r) ==
    IF ~ContainsDot(domain)
    THEN LET pos == FindLeaf(node, domain) IN
         IF pos # 0 THEN [node EXCEPT !.leaves[pos].rr = << r >>] ELSE node
    ELSE LET pos == FindLeaf(node, RSplitFirst(domain)) IN
         IF pos # 0
         THEN [node EXCEPT !.leaves[pos] = DomainTree_set_rr(@, RSplitRest(domain), r)]
         ELSE node

\* DomainTree::get_rr(domain): << r >> for Some(r), << >> for None
RECURSIVE DomainTree_get_rr(_, _)
DomainTree_get_rr(node, domain) ==
    IF ~ContainsDot(domain)
    THEN LET pos == FindLeaf(node, domain) IN
         IF pos # 0 /\ node.leaves[pos].owner = domain THEN node.leaves[pos].rr ELSE <<>>
    ELSE LET pos == FindLeaf(node, RSplitFirst(domain)) IN
         IF pos # 0 THEN DomainTree_get_rr(node.leaves[pos], RSplitRest(domain)) ELSE <<>>

---------------------------------------------------------------------------
(* SpecTree: one DomainTree under push, set_rr and get_rr, one call at a   *)
(* time.                                                                   *)

\* the number of push and set_rr calls made on the tree
MaxTreeOps == 3

\* the names pushed and set: a, b, a.b, b.b, c.a.b
TreeNames ==
    { <<97>>, <<98>>, <<97, 46, 98>>, <<98, 46, 98>>, <<99, 46, 97, 46, 98>> }

\* the names looked up: those, and A, A.b, a.B
TreeQueries == TreeNames \cup { <<65>>, <<65, 46, 98>>, <<97, 46, 66>> }

\* the records attached, each standing for one Rc<RefCell<RR>>
TreeRecords == {"r1", "r2"}

\* name x is the name p or one of its ancestors: push(p) makes a node for it
HasNode(x, p) ==
    \/ x = p
    \/ /\ Len(p) > Len(x)
       /\ SubSeq(p, Len(p) - Len(x) + 1, Len(p)) = x
       /\ p[Len(p) - Len(x)] = DOT

NoLookup == [name |-> <<>>, res |-> <<>>]

InitTree ==
    /\ tree = DomainTree_new
    /\ pushed = {}
    /\ expected = [x \in TreeNames |-> <<>>]
    /\ lookup = NoLookup
    /\ treeOps = 0
    /\ IdleCodec
    /\ IdleHeader
    /\ IdleNames
    /\ IdleOpt
    /\ IdleLabel
    /\ IdleServe
    /\ IdleForward
    /\ IdleLookups
    /\ IdleRecord
    /\ IdleEncode
    /\ IdleRdata
    /\ IdleMaster
    /\ IdleBack
    /\ IdleSort

\* tree.push(x)
Push ==
    \E x \in TreeNames :
        /\ treeOps < MaxTreeOps
        /\ tree' = DomainTree_push(tree, x)
        /\ pushed' = pushed \cup {x}
        /\ treeOps' = treeOps + 1
        /\ lookup' = NoLookup
        /\ UNCHANGED <<expected, codecVars, headerVars, namesVars, optVars, labelVars, serveVars, forwardVars, lookupsVars, recordVars, encodeVars, rdataVars, masterVars, backVars, sortVars>>

\* tree.set_rr(x, r)
SetRR ==
    \E x \in TreeNames, r \in TreeRecords :
        /\ treeOps < MaxTreeOps
        /\ tree' = DomainTree_set_rr(tree, x, r)
        /\ expected' = IF \E p \in pushed : HasNode(x, p)
                       THEN [expected EXCEPT ![x] = << r >>]
                       ELSE expected
        /\ treeOps' = treeOps + 1
        /\ lookup' = NoLookup
        /\ UNCHANGED <<pushed, codecVars, headerVars, namesVars, optVars, labelVars, serveVars, forwardVars, lookupsVars, recordVars, encodeVars, rdataVars, masterVars, backVars, sortVars>>

\* tree.get_rr(y)
GetRR ==
    \E y \in TreeQueries :
        /\ lookup = NoLookup
        /\ lookup' = [name |-> y, res |-> DomainTree_get_rr(tree, y)]
        /\ UNCHANGED <<tree, pushed, expected, treeOps, codecVars, headerVars, namesVars,
                       optVars, labelVars, serveVars, forwardVars, lookupsVars, recordVars, encodeVars, rdataVars, masterVars, backVars, sortVars>>

NextTree == Push \/ SetRR \/ GetRR

SpecTree == InitTree /\ [][NextTree]_vars

\* C13: after any sequence of push and set_rr calls, get_rr(x) returns the
\* record of the most recent set_rr(x, .) made after x had been pushed, and
\* None when there is no such call.
C13_LookupReturnsLastSet ==
    lookup.name \in TreeNames => lookup.res = expected[lookup.name]

\* ASCII lower case of one byte
ToLower(c) == IF c >= 65 /\ c <= 90 THEN c + 32 ELSE c

EqualIgnoreCase(x, y) ==
    /\ Len(x) = Len(y)
    /\ \A i \in 1..Len(x) : ToLower(x[i]) = ToLower(y[i])

\* C14: if a record is attached under name x, get_rr(y) returns that record
\* for every name y equal to x up to ASCII letter case.
C14_LookupIgnoresCase ==
    lookup # NoLookup =>
        \A x \in TreeNames :
            (EqualIgnoreCase(x, lookup.name) /\ DomainTree_get_rr(tree, x) # <<>>) =>
                lookup.res = DomainTree_get_rr(tree, x)

---------------------------------------------------------------------------
(* Specification SpecLabels: the name and question decoders applied to one *)
(* byte string (src/src/dns/labels.rs, src/src/dns/question.rs).           *)

\* the longest label the inputs carry
MaxLabel == 65

\* QTYPE A, QCLASS IN
QTail == << 0, 1, 0, 1 >>

\* "a", "a.bb", "a.bb.cc", "google.com" as strings
NameStrings ==
    { << 97 >>, << 97, DOT, 98, 98 >>, << 97, DOT, 98, 98, DOT, 99, 99 >>,
      << 103, 111, 111, 103, 108, 101, DOT, 99, 111, 109 >> }

\* well-formed names on the wire: labels and the terminating zero octet
\* (the root name is the zero octet alone)
WireNames == { << 0 >> } \cup { encode_domain_name(n) : n \in NameStrings }

\* well-formed question encodings: name, QTYPE, QCLASS
WireQuestions == { n \o QTail : n \in WireNames }

Prefixes(s) == { SubSeq(s, 1, k) : k \in 0..Len(s) }

ProperPrefixes(s) == { SubSeq(s, 1, k) : k \in 0..(Len(s) - 1) }

\* one label of n bytes under the length octet n, then the terminator
OneLabel(n) == << n >> \o [i \in 1..n |-> 97] \o << 0 >>

LabelLengths == { 1, 2, 62, 63, 64, MaxLabel }

LabelInputs ==
    UNION { Prefixes(q) : q \in WireQuestions }
    \cup { OneLabel(n) : n \in LabelLengths }
    \cup { OneLabel(n) \o QTail : n \in LabelLengths }
    \cup { << 97 >> \o OneLabel(n) : n \in { 64, 128, 191 } }

InitLabels ==
    /\ input \in LabelInputs
    /\ nameRes = <<>>
    /\ quesRes = <<>>
    /\ IdleCodec
    /\ IdleHeader
    /\ IdleNames
    /\ IdleOpt
    /\ IdleTree
    /\ IdleServe
    /\ IdleForward
    /\ IdleLookups
    /\ IdleRecord
    /\ IdleEncode
    /\ IdleRdata
    /\ IdleMaster
    /\ IdleBack
    /\ IdleSort

\* Labels::parse(&input, &mut 0)
ParseName ==
    /\ nameRes = <<>>
    /\ nameRes' = << Labels_parse(input, 0) >>
    /\ UNCHANGED <<input, quesRes, codecVars, headerVars, namesVars, optVars, treeVars, serveVars, forwardVars, lookupsVars, recordVars, encodeVars, rdataVars, masterVars, backVars, sortVars>>

\* Question::from(&input)
ParseQuestion ==
    /\ quesRes = <<>>
    /\ quesRes' = << Question_from(input, 0) >>
    /\ UNCHANGED <<input, nameRes, codecVars, headerVars, namesVars, optVars, treeVars, serveVars, forwardVars, lookupsVars, recordVars, encodeVars, rdataVars, masterVars, backVars, sortVars>>

\* encode_domain_name(labels.encode_to_str()) of the name Labels::parse gave
EncodeName ==
    /\ nameRes # <<>>
    /\ nameRes[1].kind = "ok"
    /\ nameBack = <<>>
    /\ nameBack' = << encode_domain_name(encode_to_str(nameRes[1].labels)) >>
    /\ UNCHANGED <<input, nameRes, quesRes, codecVars, headerVars, namesVars, optVars, treeVars, serveVars, forwardVars, lookupsVars, recordVars, encodeVars, rdataVars, masterVars, sortVars>>

NextLabels == ParseName \/ ParseQuestion \/ EncodeName

SpecLabels == InitLabels /\ [][NextLabels]_vars

\* C15: name decoding accepts a label whose length octet is 1..63 and fails
\* with an error when a length octet is in 64..191, so that no decoded name
\* holds a label longer than 63 bytes.
C15_LabelLengthLimit ==
    /\ nameRes # <<>> =>
        /\ \A n \in LabelLengths :
               (n <= 63 /\ input = OneLabel(n)) =>
                   /\ nameRes[1].kind = "ok"
                   /\ nameRes[1].labels = << Slice(input, 1, 1 + n) >>
        /\ (input # <<>> /\ input[1] \in 64..191) => nameRes[1].kind = "err"
        /\ nameRes[1].kind = "ok" =>
               \A i \in 1..Len(nameRes[1].labels) : Len(nameRes[1].labels[i]) <= 63
    /\ quesRes # <<>> =>
        /\ (input # <<>> /\ input[1] \in 64..191) => quesRes[1].kind = "err"
        /\ quesRes[1].kind = "ok" =>
               \A i \in 1..Len(quesRes[1].ques.qname) :
                   Len(quesRes[1].ques.qname[i]) <= 63

\* a well-formed name with its terminating zero octet taken away
Unterminated(n) == SubSeq(n, 1, Len(n) - 1)

\* C16: decoding a question from a proper prefix (the empty one included) of
\* a well-formed question encoding returns an error, and decoding a name
\* whose terminating zero octet is missing returns an error.
C16_TruncatedRejected ==
    /\ quesRes # <<>> =>
        \A q \in WireQuestions :
            input \in ProperPrefixes(q) => quesRes[1].kind = "err"
    /\ nameRes # <<>> =>
        \A n \in WireNames :
            input = Unterminated(n) => nameRes[1].kind = "err"

---------------------------------------------------------------------------
(* Specification SpecServe: NameServer::serve with the clients that send   *)
(* to it (src/src/components/name_server/server.rs).                       *)

\* how many datagrams (or TCP connections) the clients make
MaxDatagrams == 3

\* the query a. A IN, the query bb.cc. A IN, three bytes, a message cut
\* inside its question, and the empty payload
QueryA == HeaderBytes(1, 0, 0, 0) \o << 1, 97, 0, 0, 1, 0, 1 >>

QueryBBCC == HeaderBytes(1, 0, 0, 0) \o << 2, 98, 98, 2, 99, 99, 0, 0, 1, 0, 1 >>

Datagrams ==
    { QueryA, QueryBBCC, << 1, 2, 3 >>, HeaderBytes(1, 0, 0, 0) \o << 5, 97 >>, <<>> }

\* a payload DNS::from accepts
WellFormed(d) == DNS_from(d).kind = "ok"

\* bytes::BytesMut::new(): an empty buffer, so bts.as_mut() is a slice of
\* length 0
BytesMut_new == <<>>

\* UdpSocket::recv(buf): the datagram is copied into buf as far as buf
\* goes and the rest of it is dropped; the return value is the number of
\* bytes copied
UdpSocket_recv(slice, datagram) == Slice(datagram, 0, Min(Len(slice), Len(datagram)))

InitServe ==
    /\ protocol \in {"udp", "tcp"}
    /\ inbox = <<>>
    /\ servePc = "recv"
    /\ tasks = <<>>
    /\ sent = <<>>
    /\ received = <<>>
    /\ IdleCodec
    /\ IdleHeader
    /\ IdleNames
    /\ IdleOpt
    /\ IdleTree
    /\ IdleLabel
    /\ IdleForward
    /\ IdleLookups
    /\ IdleRecord
    /\ IdleEncode
    /\ IdleRdata
    /\ IdleMaster
    /\ IdleBack
    /\ IdleSort

\* a client sends a datagram, or connects, writes a payload and closes
Arrive ==
    /\ servePc = "recv"
    /\ Len(received) + Len(inbox) < MaxDatagrams
    /\ \E d \in Datagrams : inbox' = Append(inbox, d)
    /\ UNCHANGED <<protocol, servePc, tasks, sent, received, codecVars, headerVars,
                   namesVars, optVars, treeVars, labelVars, forwardVars, lookupsVars, recordVars, encodeVars, rdataVars, masterVars, backVars, sortVars>>

\* one turn of the "udp" loop: recv into a new BytesMut, set_len, DNS::from
\* with expect, spawn
UdpTurn(bts) ==
    /\ received' = Append(received, Head(inbox))
    /\ inbox' = Tail(inbox)
    /\ IF DNS_from(bts).kind = "ok"
       THEN /\ tasks' = Append(tasks, [kind |-> "query", re |-> Len(received) + 1])
            /\ UNCHANGED servePc
       ELSE /\ servePc' = "panicked"
            /\ UNCHANGED tasks
    /\ UNCHANGED <<protocol, sent, codecVars, headerVars, namesVars, optVars, treeVars,
                   labelVars, forwardVars, lookupsVars, recordVars, encodeVars, rdataVars, masterVars, backVars, sortVars>>

UdpRecv ==
    /\ protocol = "udp"
    /\ servePc = "recv"
    /\ inbox # <<>>
    /\ UdpTurn(UdpSocket_recv(BytesMut_new, Head(inbox)))

\* one turn of the "tcp" loop: accept and spawn the connection's task
TcpAccept ==
    /\ protocol = "tcp"
    /\ servePc = "recv"
    /\ inbox # <<>>
    /\ received' = Append(received, Head(inbox))
    /\ inbox' = Tail(inbox)
    /\ tasks' = Append(tasks, [kind |-> "conn", re |-> Len(received) + 1])
    /\ UNCHANGED <<protocol, servePc, sent, codecVars, headerVars, namesVars, optVars,
                   treeVars, labelVars, forwardVars, lookupsVars, recordVars, encodeVars, rdataVars, masterVars, backVars, sortVars>>

Without(seq, i) == SubSeq(seq, 1, i - 1) \o SubSeq(seq, i + 1, Len(seq))

\* a connection's task: read_to_end, return when nothing was read, DNS::from
\* with expect (a panic ends this task alone), spawn
Connection ==
    \E i \in 1..Len(tasks) :
        /\ tasks[i].kind = "conn"
        /\ IF Len(received[tasks[i].re]) # 0 /\ DNS_from(received[tasks[i].re]).kind = "ok"
           THEN tasks' = Append(Without(tasks, i), [kind |-> "query", re |-> tasks[i].re])
           ELSE tasks' = Without(tasks, i)
        /\ UNCHANGED <<protocol, inbox, servePc, sent, received, codecVars, headerVars,
                       namesVars, optVars, treeVars, labelVars, forwardVars, lookupsVars, recordVars, encodeVars, rdataVars, masterVars, backVars, sortVars>>

\* the task `async move { self.query(dns_query) }`: the call makes the future
\* of query and the block ends with it, no .await: the body of query does
\* not run, and neither the task nor query holds the socket
QueryTask ==
    \E i \in 1..Len(tasks) :
        /\ tasks[i].kind = "query"
        /\ tasks' = Without(tasks, i)
        /\ UNCHANGED <<protocol, inbox, servePc, sent, received, codecVars, headerVars,
                       namesVars, optVars, treeVars, labelVars, forwardVars, lookupsVars, recordVars, encodeVars, rdataVars, masterVars, backVars, sortVars>>

NextServe == Arrive \/ UdpRecv \/ TcpAccept \/ Connection \/ QueryTask

SpecServe == InitServe /\ [][NextServe]_vars

\* the server has no step left to take
Settled == tasks = <<>> /\ (inbox = <<>> \/ servePc = "panicked")

\* C17: every well-formed query datagram the UDP serve loop receives leads
\* to a response that is sent: once the server has no step left, each such
\* datagram has its response among the sent ones.
C17_QueryAnswered ==
    (protocol = "udp" /\ Settled) =>
        \A i \in 1..Len(received) :
            WellFormed(received[i]) => \E j \in 1..Len(sent) : sent[j].re = i

\* C18: a received datagram or TCP payload that does not parse does not
\* stop the serve loop: after taking one the loop is at its receive again.
C18_ServeLoopSurvives ==
    (received # <<>> /\ ~WellFormed(received[Len(received)])) => servePc = "recv"

---------------------------------------------------------------------------
(* Specification SpecForward: one call of DefaultForward::forward, the     *)
(* target it sends to, and the clock                                       *)
(* (src/src/components/resolver/forward.rs).                               *)

\* how many seconds the clock is followed
MaxElapsed == 7

\* the messages handed to forward
ForwardInputs == { DNS_from(QueryA), DNS_from(QueryBBCC), DNS_from(HeaderBytes(0, 0, 0, 0)) }

\* what the target may answer: the query with QR set, or three bytes
Replies(query) == { with_qr(query, TRUE), << 1, 2, 3 >> }

InitForward ==
    /\ fwdProtocol \in {"udp", "tcp"}
    /\ fwdDns \in ForwardInputs
    /\ fwdPc = "call"
    /\ upstream = <<>>
    /\ fwdReply = <<>>
    /\ fwdRes = <<>>
    /\ elapsed = 0
    /\ IdleCodec
    /\ IdleHeader
    /\ IdleNames
    /\ IdleOpt
    /\ IdleTree
    /\ IdleLabel
    /\ IdleServe
    /\ IdleLookups
    /\ IdleRecord
    /\ IdleEncode
    /\ IdleRdata
    /\ IdleMaster
    /\ IdleBack
    /\ IdleSort

\* forward up to its recv_from: the match on the protocol, the two encodes
\* (each leaves its counts in the header) and send_to, whose result is
\* dropped (`let _ =`): whether or not the datagram went out, recv_from is next
ForwardSend(first, second, went) ==
    IF first.kind # "ok"
    THEN /\ fwdRes' = << [kind |-> "err"] >>
         /\ fwdPc' = "returned"
         /\ fwdDns' = [fwdDns EXCEPT !.head = first.head]
         /\ UNCHANGED upstream
    ELSE IF second.kind # "ok"
    THEN /\ fwdRes' = << [kind |-> "err"] >>
         /\ fwdPc' = "returned"
         /\ fwdDns' = [fwdDns EXCEPT !.head = second.head]
         /\ UNCHANGED upstream
    ELSE /\ upstream' = IF went THEN Append(upstream, second.bytes) ELSE upstream
         /\ fwdPc' = "recv_from"
         /\ fwdDns' = [fwdDns EXCEPT !.head = second.head]
         /\ UNCHANGED fwdRes

ForwardCall ==
    /\ fwdPc = "call"
    /\ IF fwdProtocol = "udp"
       THEN \E went \in BOOLEAN :
                ForwardSend(DNS_encode(fwdDns, TRUE), DNS_encode(fwdDns, FALSE), went)
       ELSE /\ fwdRes' = << [kind |-> "err"] >>
            /\ fwdPc' = "returned"
            /\ UNCHANGED <<fwdDns, upstream>>
    /\ UNCHANGED <<fwdProtocol, fwdReply, elapsed, codecVars, headerVars, namesVars,
                   optVars, treeVars, labelVars, serveVars, lookupsVars, recordVars, encodeVars, rdataVars, masterVars, backVars, sortVars>>

\* the target answers; nothing makes it
UpstreamResponds ==
    /\ upstream # <<>>
    /\ fwdReply = <<>>
    /\ \E d \in Replies(upstream[1]) : fwdReply' = << d >>
    /\ UNCHANGED <<fwdProtocol, fwdDns, fwdPc, upstream, fwdRes, elapsed, codecVars,
                   headerVars, namesVars, optVars, treeVars, labelVars, serveVars, lookupsVars, recordVars, encodeVars, rdataVars, masterVars, backVars, sortVars>>

\* recv_from(&mut buff) returns with the datagram, up to the 512 bytes of
\* buff; DNS::from(resp)?; Ok(new_dns).  The socket is a blocking
\* std::net::UdpSocket on which no read timeout is set: without a datagram
\* the call stays in recv_from.
RecvFrom ==
    /\ fwdPc = "recv_from"
    /\ fwdReply # <<>>
    /\ fwdRes' = << [kind |-> DNS_from(Slice(fwdReply[1], 0, Min(512, Len(fwdReply[1])))).kind] >>
    /\ fwdPc' = "returned"
    /\ UNCHANGED <<fwdProtocol, fwdDns, upstream, fwdReply, elapsed, codecVars,
                   headerVars, namesVars, optVars, treeVars, labelVars, serveVars, lookupsVars, recordVars, encodeVars, rdataVars, masterVars, backVars, sortVars>>

\* a second goes by while the call is in progress
Tick ==
    /\ fwdPc = "recv_from"
    /\ elapsed < MaxElapsed
    /\ elapsed' = elapsed + 1
    /\ UNCHANGED <<fwdProtocol, fwdDns, fwdPc, upstream, fwdReply, fwdRes, codecVars,
                   headerVars, namesVars, optVars, treeVars, labelVars, serveVars, lookupsVars, recordVars, encodeVars, rdataVars, masterVars, backVars, sortVars>>

NextForward == ForwardCall \/ UpstreamResponds \/ RecvFrom \/ Tick

SpecForward == InitForward /\ [][NextForward]_vars

\* C19: when the target sends no response, forward returns an error once
\* the timeout of the call (5 s by default) has gone by: more than 5 s after
\* the call, with no response sent, the call has returned an error.
C19_ForwardTimesOut ==
    (fwdPc # "call" /\ fwdReply = <<>> /\ elapsed > 5) =>
        (fwdPc = "returned" /\ fwdRes # <<>> /\ fwdRes[1].kind = "err")

---------------------------------------------------------------------------
(* Specification SpecLookups: two query tasks, each in one call of         *)
(* DomainTree::get_rr on the tree they share                               *)
(* (src/src/components/name_server/zones/domain_tree.rs).  NameServer is   *)
(* declared Sync and Send, so the tasks run on different worker threads    *)
(* and their steps interleave.  Every node is an Rc<RefCell<DomainTree>>;  *)
(* the borrow flag of a RefCell is a plain integer (0 unused, n > 0 for n  *)
(* shared borrows, -1 for the exclusive one) that is read and written in   *)
(* separate steps.                                                         *)

Tasks == {1, 2}

\* the tree after push("a.b"), push("c.b"), push("d"), set_rr("a.b", r1),
\* set_rr("d", r2)
ZoneTree ==
    DomainTree_set_rr(
        DomainTree_set_rr(
            DomainTree_push(
                DomainTree_push(
                    DomainTree_push(DomainTree_new, << 97, DOT, 98 >>),
                    << 99, DOT, 98 >>),
                << 100 >>),
            << 97, DOT, 98 >>, "r1"),
        << 100 >>, "r2")

\* "a.b", "c.b", "d" and "x"
LookupNames == { << 97, DOT, 98 >>, << 99, DOT, 98 >>, << 100 >>, << 120 >> }

\* a node is named by its path: the positions taken in `leaves` from the root
RECURSIVE NodeAt(_, _)
NodeAt(node, path) ==
    IF path = <<>> THEN node ELSE NodeAt(node.leaves[Head(path)], Tail(path))

RECURSIVE Paths(_, _)
Paths(node, prefix) ==
    { prefix } \cup UNION { Paths(node.leaves[i], Append(prefix, i)) : i \in 1..Len(node.leaves) }

NewTask(name) ==
    [pc |-> "start", name |-> name, path |-> <<>>, domain |-> name, left |-> 0,
     right |-> 0, mid |-> 0, tmp |-> 0, why |-> "none", held |-> <<>>, res |-> <<>>,
     failed |-> FALSE]

InitLookups ==
    /\ zone = ZoneTree
    /\ borrow = [p \in Paths(ZoneTree, <<>>) |-> 0]
    /\ task \in [Tasks -> { NewTask(n) : n \in LookupNames }]
    /\ IdleCodec
    /\ IdleHeader
    /\ IdleNames
    /\ IdleOpt
    /\ IdleTree
    /\ IdleLabel
    /\ IdleServe
    /\ IdleForward
    /\ IdleRecord
    /\ IdleEncode
    /\ IdleRdata
    /\ IdleMaster
    /\ IdleBack
    /\ IdleSort

\* task t goes on as tk, leaving the flags as they are
Goes(t, tk) ==
    /\ task' = [task EXCEPT ![t] = tk]
    /\ UNCHANGED <<zone, borrow, codecVars, headerVars, namesVars, optVars, treeVars,
                   labelVars, serveVars, forwardVars, recordVars, encodeVars, rdataVars, masterVars, backVars, sortVars>>

\* task t goes on as tk and stores v in the flag of node p
Stores(t, tk, p, v) ==
    /\ task' = [task EXCEPT ![t] = tk]
    /\ borrow' = [borrow EXCEPT ![p] = v]
    /\ UNCHANGED <<zone, codecVars, headerVars, namesVars, optVars, treeVars,
                   labelVars, serveVars, forwardVars, recordVars, encodeVars, rdataVars, masterVars, backVars, sortVars>>

\* the name the binary search looks for in this call, and the leaf it is at
Key(tk) == IF ContainsDot(tk.domain) THEN RSplitFirst(tk.domain) ELSE tk.domain

Target(tk) == Append(tk.path, tk.mid + 1)

\* get_rr(&self, domain) is entered on the root
Call ==
    \E t \in Tasks :
        /\ task[t].pc = "start"
        /\ Goes(t, [task[t] EXCEPT !.pc = "search", !.right = Len(zone.leaves)])

\* binary_search_by: Err when the range is empty (get_rr returns None), else
\* the closure is called on the middle leaf
Search ==
    \E t \in Tasks :
        /\ task[t].pc = "search"
        /\ IF task[t].left >= task[t].right
           THEN Goes(t, [task[t] EXCEPT !.pc = "unwind", !.res = <<>>])
           ELSE Goes(t, [task[t] EXCEPT !.pc = "borrow", !.why = "probe",
                             !.mid = task[t].left + (task[t].right - task[t].left) \div 2])

\* .borrow(): the flag is read; a flag below 0 panics (already mutably
\* borrowed)
Borrow ==
    \E t \in Tasks :
        /\ task[t].pc = "borrow"
        /\ IF borrow[Target(task[t])] < 0
           THEN Goes(t, [task[t] EXCEPT !.pc = "unwind", !.failed = TRUE])
           ELSE Goes(t, [task[t] EXCEPT !.pc = "borrowed", !.tmp = borrow[Target(task[t])]])

\* .borrow(): the flag read plus one is stored.  In
\* `c.borrow().owner == domain && c.borrow().rr.is_some()` the second borrow
\* is taken while the first is held.
Borrowed ==
    \E t \in Tasks :
        /\ task[t].pc = "borrowed"
        /\ IF task[t].why = "owner"
           THEN Stores(t, [task[t] EXCEPT !.pc = "borrow", !.why = "is_some"],
                       Target(task[t]), task[t].tmp + 1)
           ELSE Stores(t, [task[t] EXCEPT !.pc = "release"],
                       Target(task[t]), task[t].tmp + 1)

\* the Ref is dropped: the flag is read
Release ==
    \E t \in Tasks :
        /\ task[t].pc = "release"
        /\ Goes(t, [task[t] EXCEPT !.pc = "released", !.tmp = borrow[Target(task[t])]])

\* what get_rr does with what it read under the borrow it has dropped
After(tk, node) ==
    CASE tk.why = "probe" ->
             IF StrCmp(node.owner, Key(tk)) = 0
             THEN IF ContainsDot(tk.domain)
                  THEN [tk EXCEPT !.pc = "borrow_mut"]
                  ELSE [tk EXCEPT !.pc = "borrow", !.why = "owner"]
             ELSE IF StrCmp(node.owner, Key(tk)) < 0
             THEN [tk EXCEPT !.pc = "search", !.left = tk.mid + 1]
             ELSE [tk EXCEPT !.pc = "search", !.right = tk.mid]
      [] tk.why = "is_some" -> [tk EXCEPT !.pc = "release", !.why = "cond"]
      [] tk.why = "cond" ->
             IF node.owner = tk.domain /\ node.rr # <<>>
             THEN [tk EXCEPT !.pc = "borrow", !.why = "rr"]
             ELSE [tk EXCEPT !.pc = "unwind", !.res = <<>>]
      [] OTHER -> [tk EXCEPT !.pc = "unwind", !.res = node.rr]

\* the Ref is dropped: the flag read minus one is stored
Released ==
    \E t \in Tasks :
        /\ task[t].pc = "released"
        /\ Stores(t, After(task[t], NodeAt(zone, Target(task[t]))),
                  Target(task[t]), task[t].tmp - 1)

\* .try_borrow_mut().unwrap() on the leaf found: any flag but 0 is an Err,
\* and unwrap panics
BorrowMut ==
    \E t \in Tasks :
        /\ task[t].pc = "borrow_mut"
        /\ IF borrow[Target(task[t])] # 0
           THEN Goes(t, [task[t] EXCEPT !.pc = "unwind", !.failed = TRUE])
           ELSE Goes(t, [task[t] EXCEPT !.pc = "borrowed_mut"])

\* the flag is set to -1 and get_rr is entered on the leaf with the rest of
\* the name
BorrowedMut ==
    \E t \in Tasks :
        /\ task[t].pc = "borrowed_mut"
        /\ Stores(t, [task[t] EXCEPT !.pc = "search",
                                     !.held = Append(task[t].held, Target(task[t])),
                                     !.path = Target(task[t]),
                                     !.domain = RSplitRest(task[t].domain),
                                     !.left = 0,
                                     !.right = Len(NodeAt(zone, Target(task[t])).leaves)],
                  Target(task[t]), -1)

\* a return or a panic leaves the calls one by one; the RefMut each call
\* holds is dropped: the flag is read
Unwind ==
    \E t \in Tasks :
        /\ task[t].pc = "unwind"
        /\ IF task[t].held = <<>>
           THEN Goes(t, [task[t] EXCEPT !.pc = IF task[t].failed THEN "panicked" ELSE "done"])
           ELSE Goes(t, [task[t] EXCEPT !.pc = "unwound",
                             !.tmp = borrow[task[t].held[Len(task[t].held)]]])

\* the RefMut is dropped: the flag read plus one is stored
Unwound ==
    \E t \in Tasks :
        /\ task[t].pc = "unwound"
        /\ Stores(t, [task[t] EXCEPT !.pc = "unwind",
                          !.held = SubSeq(task[t].held, 1, Len(task[t].held) - 1)],
                  task[t].held[Len(task[t].held)], task[t].tmp + 1)

NextLookups ==
    \/ Call
    \/ Search
    \/ Borrow
    \/ Borrowed
    \/ Release
    \/ Released
    \/ BorrowMut
    \/ BorrowedMut
    \/ Unwind
    \/ Unwound

SpecLookups == InitLookups /\ [][NextLookups]_vars

\* C20: two lookups on the same tree at the same time do not fail each
\* other: no task panics, and a task that is done has the result the same
\* call gives alone.
C20_LookupsIndependent ==
    \A t \in Tasks :
        /\ task[t].pc # "panicked"
        /\ task[t].pc = "done" => task[t].res = DomainTree_get_rr(zone, task[t].name)

---------------------------------------------------------------------------
(* Specification SpecRecords: Labels::parse and RR::from applied to a      *)
(* message at a start offset (src/src/dns/labels.rs, src/src/dns/rr.rs).   *)

\* the name a. at offset 0
NameA == << 1, 97, 0 >>

\* TYPE A, CLASS IN, TTL 0, RDLENGTH 4, an address
RRTail == << 0, 1, 0, 1, 0, 0, 0, 0, 0, 4, 1, 2, 3, 4 >>

\* messages: a record at offset 3 owned by a pointer alone, by a label and
\* a pointer, by an inline name, and (at offset 5) by a pointer to a
\* pointer; a pointer to itself; two pointers to each other; a label and a
\* pointer back to it; a pointer forward to a zero octet
Wires ==
    { NameA \o << 192, 0 >> \o RRTail,
      NameA \o << 1, 98, 192, 0 >> \o RRTail,
      NameA \o << 1, 98, 0 >> \o RRTail,
      NameA \o << 192, 0, 192, 3 >> \o RRTail,
      << 192, 0 >>,
      << 192, 2, 192, 0 >>,
      << 1, 97, 192, 0 >>,
      << 192, 2, 0 >> }

InitRecords ==
    /\ wire \in Wires
    /\ wireAt \in 0..Len(wire)
    /\ nameAt = <<>>
    /\ rrAt = <<>>
    /\ IdleCodec
    /\ IdleHeader
    /\ IdleNames
    /\ IdleOpt
    /\ IdleTree
    /\ IdleLabel
    /\ IdleServe
    /\ IdleForward
    /\ IdleLookups
    /\ IdleEncode
    /\ IdleRdata
    /\ IdleMaster
    /\ IdleBack
    /\ IdleSort

\* Labels::parse(&wire, &mut wireAt)
ParseNameAt ==
    /\ nameAt = <<>>
    /\ nameAt' = << Labels_parse(wire, wireAt) >>
    /\ UNCHANGED <<wire, wireAt, rrAt, codecVars, headerVars, namesVars, optVars, treeVars,
                   labelVars, serveVars, forwardVars, lookupsVars, encodeVars, rdataVars, masterVars, backVars, sortVars>>

\* RR::from(&wire, &mut wireAt, &mut false)
ParseRRAt ==
    /\ rrAt = <<>>
    /\ rrAt' = << RR_from(wire, wireAt, FALSE) >>
    /\ UNCHANGED <<wire, wireAt, nameAt, codecVars, headerVars, namesVars, optVars, treeVars,
                   labelVars, serveVars, forwardVars, lookupsVars, encodeVars, rdataVars, masterVars, backVars, sortVars>>

NextRecords == ParseNameAt \/ ParseRRAt

SpecRecords == InitRecords /\ [][NextRecords]_vars

\* C21: Labels::parse terminates on every buffer and every start offset:
\* no call ends in a recursion without end.
C21_ParseTerminates ==
    /\ nameAt # <<>> => nameAt[1].kind # "overflow"
    /\ rrAt # <<>> => rrAt[1].kind # "overflow"

\* the position of the pointer that ends the name at offset i of b (labels
\* are stepped over by their length octets), -1 when the name does not end
\* in a pointer
RECURSIVE PointerPos(_, _)
PointerPos(b, i) ==
    IF i + 1 >= Len(b) THEN -1
    ELSE IF At(b, i) >= 192 THEN i
    ELSE IF At(b, i) = 0 THEN -1
    ELSE PointerPos(b, i + 1 + At(b, i))

\* C22: when the owner name of a record ends in a pointer (alone or after
\* inline labels) and the name decodes, the offset of RR::from is 2 past
\* the pointer's first byte after the name: TYPE is read from there, so
\* the A record that follows the pointer is decoded, to its end.
C22_OffsetPastPointer ==
    (/\ rrAt # <<>>
     /\ nameAt # <<>>
     /\ nameAt[1].kind = "ok"
     /\ PointerPos(wire, wireAt) >= 0
     /\ Drop(wire, PointerPos(wire, wireAt) + 2) = RRTail) =>
        /\ rrAt[1].kind = "ok"
        /\ rrAt[1].rr.typ = TYPE_A
        /\ rrAt[1].offset = Len(wire)

---------------------------------------------------------------------------
(* Specification SpecEncode: RR::encode on one record of each RDATA        *)
(* variant (src/src/dns/rr.rs, src/src/dns/rdata, src/src/dns/rdata/sec).  *)

\* the character of the standard base64 alphabet for a 6-bit value
Base64Char(v) ==
    IF v < 26 THEN 65 + v
    ELSE IF v < 52 THEN 97 + (v - 26)
    ELSE IF v < 62 THEN 48 + (v - 52)
    ELSE IF v = 62 THEN 43
    ELSE 47

\* BASE64_ENGINE.encode: the STANDARD alphabet with '=' padding
RECURSIVE Base64_encode(_)
Base64_encode(s) ==
    IF Len(s) = 0 THEN <<>>
    ELSE IF Len(s) = 1
    THEN << Base64Char(s[1] \div 4), Base64Char((s[1] % 4) * 16), 61, 61 >>
    ELSE IF Len(s) = 2
    THEN << Base64Char(s[1] \div 4), Base64Char((s[1] % 4) * 16 + s[2] \div 16),
            Base64Char((s[2] % 16) * 4), 61 >>
    ELSE << Base64Char(s[1] \div 4), Base64Char((s[1] % 4) * 16 + s[2] \div 16),
            Base64Char((s[2] % 16) * 4 + s[3] \div 64), Base64Char(s[3] % 64) >>
         \o Base64_encode(SubSeq(s, 4, Len(s)))

\* DNSKEY::encode: flags, protocol, algorithm, the key in base64;
\* Ok(4 + self.pub_key.len())
DNSKEY_encode(rdata) ==
    Encoded(U16Bytes(rdata.flags) \o << rdata.protocol, rdata.algorithm >>
                \o Base64_encode(rdata.pub_key),
            <<>>, 4 + Len(rdata.pub_key))

\* NSEC::encode: the next domain name as the bytes of its string, the type
\* bit maps as four bytes; Ok(4 + 4)
NSEC_encode(rdata) ==
    Encoded(rdata.next_domain_name \o U32Bytes(rdata.type_bit_maps), <<>>, 4 + 4)

\* RDataType::encode with the DNSKEY and NSEC variants beside the others
RDataType_encode_sec(rdata, rawlen, list, is_compr) ==
    CASE rdata.tag = "DNSKEY" -> KeepList(DNSKEY_encode(rdata), list)
      [] rdata.tag = "NSEC"   -> KeepList(NSEC_encode(rdata), list)
      [] OTHER                -> RDataType_encode(rdata, rawlen, list, is_compr)

\* the longest public key of a DNSKEY input
MaxKey == 4

\* the RDATA values encoded: one of each kind of the standard variants, and
\* the two DNSSEC ones
RDataValues ==
    { [tag |-> "A", addr |-> << 1, 2, 3, 4 >>],
      [tag |-> "NS", name |-> << 97, DOT, 98, 98 >>],
      [tag |-> "MB", name |-> << 97, DOT, 98, 98 >>],
      [tag |-> "MX", preference |-> 10, exchange |-> << 97, DOT, 98, 98 >>],
      [tag |-> "TXT", bytes |-> << 1, 97 >>],
      [tag |-> "Null", bytes |-> <<>>],
      [tag |-> "HInfo", cpu |-> << 97 >>, os |-> << 98, 98 >>, synthesized |-> FALSE],
      [tag |-> "WKS", addr |-> << 1, 2, 3, 4 >>, protocol |-> 6, bit_map |-> << 128 >>] }
    \cup { [tag |-> "DNSKEY", flags |-> 256, protocol |-> 3, algorithm |-> 8,
            pub_key |-> [i \in 1..n |-> 48 + i]] : n \in 0..MaxKey }
    \cup { [tag |-> "NSEC", next_domain_name |-> n, type_bit_maps |-> << 0, 0, 0, 1 >>] :
               n \in { << 97 >>, << 97, DOT, 98, 98 >>, << 97, 98, DOT, 99, 99 >> } }

\* the owner names of the records: a, a.bb and bb
EncodeOwners == { << 97 >>, << 97, DOT, 98, 98 >>, << 98, 98 >> }

InitEncode ==
    /\ encRR \in { [name |-> n, typ |-> TYPE_A, class |-> 1, ttl |-> << 0, 0, 0, t >>,
                    rdlength |-> 0, rdata |-> d] :
                       n \in EncodeOwners, t \in {0, 60}, d \in RDataValues }
    /\ encOut = <<>>
    /\ IdleCodec
    /\ IdleHeader
    /\ IdleNames
    /\ IdleOpt
    /\ IdleTree
    /\ IdleLabel
    /\ IdleServe
    /\ IdleForward
    /\ IdleLookups
    /\ IdleRecord
    /\ IdleRdata
    /\ IdleMaster
    /\ IdleBack
    /\ IdleSort

\* RR::encode from the RDLENGTH placeholder on: the RDATA encoder appends at
\* raw.len(), its count is written over the placeholder
RR_encode_sec(rr, fixed, is_compr, nm) ==
    RR_encode_patch(fixed, RDataType_encode_sec(rr.rdata, Len(fixed) + 2, nm.cl, is_compr))

\* rr.encode(&mut raw, &mut cl, is_compressed) on an empty buffer and list
EncodeRR ==
    /\ encOut = <<>>
    /\ \E is_compr \in BOOLEAN :
           encOut' = << RR_encode_sec(encRR,
                            encode_domain_name_wrap(encRR.name, <<>>, is_compr, 0).bytes
                                \o U16Bytes(encRR.typ) \o U16Bytes(encRR.class)
                                \o U32Bytes(encRR.ttl),
                            is_compr,
                            encode_domain_name_wrap(encRR.name, <<>>, is_compr, 0)) >>
    /\ UNCHANGED <<encRR, codecVars, headerVars, namesVars, optVars, treeVars, labelVars,
                   serveVars, forwardVars, lookupsVars, recordVars, rdataVars, masterVars, backVars, sortVars>>

NextEncode == EncodeRR

SpecEncode == InitEncode /\ [][NextEncode]_vars

\* where RR::encode put RDLENGTH: after the owner name, TYPE, CLASS and TTL
RdlengthOffset(rr) == Len(encode_domain_name(rr.name)) + 8

\* C23: in every record RR::encode wrote, whatever the RDATA variant, the
\* two bytes of RDLENGTH hold the number of bytes that follow them, which
\* are the bytes the RDATA encoder appended.
C23_RdlengthIsRdataLen ==
    (encOut # <<>> /\ encOut[1].kind = "ok") =>
        U16(At(encOut[1].bytes, RdlengthOffset(encRR)),
            At(encOut[1].bytes, RdlengthOffset(encRR) + 1))
            = Len(encOut[1].bytes) - (RdlengthOffset(encRR) + 2)

---------------------------------------------------------------------------
\* RDATA decoding: RDataType::from on the RDATA of one record, the
\* character-string reader it uses for HINFO, and the encoder of what it
\* decoded.

\* the number of character-strings in one RDATA
MaxStrings == 3

\* the contents of the character-strings: empty, "a" and "bb"
CharStrings == { << >>, << 97 >>, << 98, 98 >> }

StringLists == UNION { [1..k -> CharStrings] : k \in 1..MaxStrings }

\* one character-string on the wire: a length octet, then that many octets
CharString(s) == << Len(s) >> \o s

RECURSIVE CharStringsBytes(_)
CharStringsBytes(ss) ==
    IF ss = << >> THEN << >> ELSE CharString(Head(ss)) \o CharStringsBytes(Tail(ss))

\* WKS RDATA: a 4-octet address, the protocol octet, a bit map
WksRData == { << 10, 0, 0, 1, p >> \o bm : p \in {6, 17}, bm \in { << >>, << 128 >>, << 0, 1 >> } }

\* the names inside RDATA: a, and a.b
RDataNames == { NameA, << 1, 97, 1, 98, 0 >> }

\* well-formed RDATA of every TYPE that RDataType::from takes
TypedRData ==
    { [typ |-> TYPE_HINFO, bytes |-> CharStringsBytes(ss)] : ss \in StringLists }
    \cup { [typ |-> TYPE_WKS, bytes |-> w] : w \in WksRData }
    \cup { [typ |-> t, bytes |-> n] :
             t \in {TYPE_NS, TYPE_MD, TYPE_MF, TYPE_CNAME, TYPE_MB, TYPE_MG, TYPE_MR, TYPE_PTR},
             n \in RDataNames }
    \cup { [typ |-> TYPE_MINFO, bytes |-> n \o m] : n \in RDataNames, m \in { << 1, 98, 0 >> } }
    \cup { [typ |-> TYPE_MX, bytes |-> << 0, 10 >> \o n] : n \in RDataNames }
    \cup { [typ |-> TYPE_SOA,
            bytes |-> n \o << 1, 98, 0 >> \o << 0, 0, 0, 1,  0, 0, 0, 2,  0, 0, 0, 3,
                                              0, 0, 0, 4,  0, 0, 0, 5 >>] : n \in RDataNames }
    \cup { [typ |-> t, bytes |-> d] : t \in {TYPE_NULL, TYPE_TXT}, d \in { << 1, 97 >>, << 0 >> } }
    \cup { [typ |-> TYPE_A, bytes |-> << 1, 2, 3, 4 >>] }

InitRData ==
    /\ \E r \in TypedRData : rdTyp = r.typ /\ rdBytes = r.bytes
    /\ rdVal = << >>
    /\ rdStrs = << >>
    /\ rdOut = << >>
    /\ IdleCodec
    /\ IdleHeader
    /\ IdleNames
    /\ IdleOpt
    /\ IdleTree
    /\ IdleLabel
    /\ IdleServe
    /\ IdleForward
    /\ IdleLookups
    /\ IdleRecord
    /\ IdleEncode
    /\ IdleMaster
    /\ IdleBack
    /\ IdleSort

\* RDataType::from(raw, rdata, typ) on a message that is the RDATA alone
DecodeRData ==
    /\ rdVal = << >>
    /\ rdVal' = << RDataType_from(rdBytes, rdBytes, 0, rdTyp) >>
    /\ UNCHANGED <<rdTyp, rdBytes, rdStrs, rdOut, codecVars, headerVars, namesVars, optVars,
                   treeVars, labelVars, serveVars, forwardVars, lookupsVars, recordVars,
                   encodeVars, masterVars, backVars, sortVars>>

\* parse_charactor_string(rdata)
ParseStrings ==
    /\ rdStrs = << >>
    /\ rdStrs' = << parse_charactor_string(rdBytes) >>
    /\ UNCHANGED <<rdTyp, rdBytes, rdVal, rdOut, codecVars, headerVars, namesVars, optVars,
                   treeVars, labelVars, serveVars, forwardVars, lookupsVars, recordVars,
                   encodeVars, masterVars, backVars, sortVars>>

\* rdata.encode(&mut raw, &mut cl, false) of the decoded value, on an empty buffer
EncodeRData ==
    /\ rdVal # << >>
    /\ rdVal[1].kind = "ok"
    /\ rdOut = << >>
    /\ rdOut' = << RDataType_encode(rdVal[1].rdata, 0, << >>, FALSE) >>
    /\ UNCHANGED <<rdTyp, rdBytes, rdVal, rdStrs, codecVars, headerVars, namesVars, optVars,
                   treeVars, labelVars, serveVars, forwardVars, lookupsVars, recordVars,
                   encodeVars, masterVars, backVars, sortVars>>

NextRData == DecodeRData \/ ParseStrings \/ EncodeRData

SpecRData == InitRData /\ [][NextRData]_vars

\* C24: parse_charactor_string on the concatenation of k >= 1 well-formed
\* character-strings returns exactly those k strings in order; an HINFO RDATA
\* of two strings decodes to cpu = the first and os = the second, and one of a
\* single string to cpu = that string with synthesized = true.
C24_CharStringsRead ==
    \A ss \in StringLists :
        rdBytes = CharStringsBytes(ss) =>
            /\ rdStrs # << >> => rdStrs[1].kind = "ok" /\ rdStrs[1].list = ss
            /\ rdTyp = TYPE_HINFO /\ rdVal # << >> /\ Len(ss) = 2 =>
                   /\ rdVal[1].kind = "ok"
                   /\ rdVal[1].rdata.cpu = ss[1]
                   /\ rdVal[1].rdata.os = ss[2]
            /\ rdTyp = TYPE_HINFO /\ rdVal # << >> /\ Len(ss) = 1 =>
                   /\ rdVal[1].kind = "ok"
                   /\ rdVal[1].rdata.cpu = ss[1]
                   /\ rdVal[1].rdata.synthesized

\* C25: a decoded WKS record has address = RDATA bytes 0..3, protocol = byte 4
\* and bit map = bytes 5 onward, so encoding the decoded record gives back the
\* RDATA.
C25_WksRoundTrip ==
    rdTyp = TYPE_WKS =>
        /\ rdVal # << >> =>
               /\ rdVal[1].kind = "ok"
               /\ rdVal[1].rdata.addr = Slice(rdBytes, 0, 4)
               /\ rdVal[1].rdata.protocol = At(rdBytes, 4)
               /\ rdVal[1].rdata.bit_map = Drop(rdBytes, 5)
        /\ rdOut # << >> => rdOut[1].kind = "ok" /\ rdOut[1].bytes = rdBytes

\* the variant of RDataType that carries the RDATA of a TYPE
VariantOf(typ) ==
    CASE typ = TYPE_A     -> "A"
      [] typ = TYPE_NS    -> "NS"
      [] typ = TYPE_MD    -> "MD"
      [] typ = TYPE_MF    -> "MF"
      [] typ = TYPE_CNAME -> "CName"
      [] typ = TYPE_SOA   -> "SOA"
      [] typ = TYPE_MB    -> "MB"
      [] typ = TYPE_MG    -> "MG"
      [] typ = TYPE_MR    -> "MR"
      [] typ = TYPE_NULL  -> "Null"
      [] typ = TYPE_WKS   -> "WKS"
      [] typ = TYPE_PTR   -> "PTR"
      [] typ = TYPE_HINFO -> "HInfo"
      [] typ = TYPE_MINFO -> "MInfo"
      [] typ = TYPE_MX    -> "MX"
      [] typ = TYPE_TXT   -> "TXT"

\* C26: RDataType::from decodes every supported TYPE into the variant of that
\* type; TYPE 14 gives a MINFO value.
C26_TypeDecodesToItsVariant ==
    (rdVal # << >> /\ rdVal[1].kind = "ok") => rdVal[1].rdata.tag = VariantOf(rdTyp)

---------------------------------------------------------------------------
\* The master file: DefaultMasterFiles::decode reads the text of the file
\* into rrs, DefaultMasterFiles::encode writes rrs as text.  Text is a
\* sequence of bytes; a record is [name, typ, class, ttl, rdata] with ttl held
\* as a number.

SPACE == 32

NEWLINE == 10

\* str::split(c): the pieces between the occurrences of c, one piece at least
RECURSIVE SplitOnFrom(_, _, _, _)
SplitOnFrom(s, c, i, cur) ==
    IF i > Len(s) THEN << cur >>
    ELSE IF s[i] = c THEN << cur >> \o SplitOnFrom(s, c, i + 1, << >>)
    ELSE SplitOnFrom(s, c, i + 1, Append(cur, s[i]))

SplitOn(s, c) == SplitOnFrom(s, c, 1, << >>)

IsDigit(c) == c >= 48 /\ c <= 57

\* format!("{}", n) of an unsigned number
RECURSIVE Decimal(_)
Decimal(n) == IF n < 10 THEN << 48 + n >> ELSE Decimal(n \div 10) \o << 48 + (n % 10) >>

RECURSIVE DigitsValue(_)
DigitsValue(s) ==
    IF s = << >> THEN 0 ELSE DigitsValue(SubSeq(s, 1, Len(s) - 1)) * 10 + (s[Len(s)] - 48)

RECURSIVE StripZeros(_)
StripZeros(s) == IF Len(s) > 1 /\ s[1] = 48 THEN StripZeros(Tail(s)) ELSE s

\* str::parse::<u16>() and ::<u32>(): an optional +, then digits only, one at
\* least; Err when the value is above the type's largest, whose digits are
\* limit
parse_unsigned(s, limit) ==
    LET d == IF s # << >> /\ s[1] = 43 THEN Tail(s) ELSE s
    IN  IF d = << >> \/ \E i \in 1..Len(d) : ~IsDigit(d[i]) THEN [kind |-> "err"]
        ELSE IF Len(StripZeros(d)) > Len(limit)
                \/ (Len(StripZeros(d)) = Len(limit) /\ StrCmp(StripZeros(d), limit) > 0)
             THEN [kind |-> "err"]
        ELSE [kind |-> "ok", v |-> DigitsValue(StripZeros(d))]

U16_MAX == << 54, 53, 53, 51, 53 >>

U32_MAX == << 52, 50, 57, 52, 57, 54, 55, 50, 57, 53 >>

\* Ipv4Addr::from_str: four decimal octets between dots, each of 1 to 3
\* digits with no leading zero and at most 255
Ipv4Addr_from_str(s) ==
    LET parts == SplitOn(s, DOT)
        Octet(p) == /\ Len(p) >= 1 /\ Len(p) <= 3
                    /\ \A i \in 1..Len(p) : IsDigit(p[i])
                    /\ (Len(p) > 1 => p[1] # 48)
                    /\ DigitsValue(p) <= 255
    IN  IF Len(parts) = 4 /\ \A k \in 1..4 : Octet(parts[k])
        THEN [kind |-> "ok", addr |-> [k \in 1..4 |-> DigitsValue(parts[k])]]
        ELSE [kind |-> "err"]

\* the text of the RDATA in a master file: dotted decimal for an A record
RDataType_as_str(rdata) ==
    Decimal(rdata.addr[1]) \o << DOT >> \o Decimal(rdata.addr[2]) \o << DOT >>
        \o Decimal(rdata.addr[3]) \o << DOT >> \o Decimal(rdata.addr[4])

\* the closure parse_line of decode: the fields between spaces; unwrap of a
\* field that is not there panics
parse_line(line_data) ==
    LET sigment == SplitOn(line_data, SPACE) IN
    IF Len(sigment) < 2 THEN [kind |-> "panic"]
    ELSE IF parse_unsigned(sigment[2], U16_MAX).kind # "ok" THEN [kind |-> "err"]
    ELSE IF Len(sigment) < 3 THEN [kind |-> "panic"]
    ELSE IF parse_unsigned(sigment[3], U16_MAX).kind # "ok" THEN [kind |-> "err"]
    ELSE IF Len(sigment) < 4 THEN [kind |-> "panic"]
    ELSE IF parse_unsigned(sigment[4], U32_MAX).kind # "ok" THEN [kind |-> "err"]
    ELSE IF parse_unsigned(sigment[2], U16_MAX).v # TYPE_A THEN [kind |-> "err"]
    ELSE IF Len(sigment) < 5 THEN [kind |-> "panic"]
    ELSE IF Ipv4Addr_from_str(sigment[5]).kind # "ok" THEN [kind |-> "err"]
    ELSE [kind |-> "ok",
          rr |-> [name |-> sigment[1],
                  typ |-> parse_unsigned(sigment[2], U16_MAX).v,
                  class |-> parse_unsigned(sigment[3], U16_MAX).v,
                  ttl |-> parse_unsigned(sigment[4], U32_MAX).v,
                  rdata |-> [tag |-> "A", addr |-> Ipv4Addr_from_str(sigment[5]).addr]]]

\* the while loop of decode over the pieces of content.split('\n'): every
\* line's record is pushed onto rrs, the first line that fails ends the call
RECURSIVE MasterFile_decode_lines(_, _)
MasterFile_decode_lines(ls, rrs) ==
    IF ls = << >> THEN [kind |-> "ok", rrs |-> rrs]
    ELSE IF parse_line(Head(ls)).kind # "ok"
         THEN [kind |-> parse_line(Head(ls)).kind, rrs |-> rrs]
    ELSE MasterFile_decode_lines(Tail(ls), Append(rrs, parse_line(Head(ls)).rr))

MasterFile_decode(content, rrs) == MasterFile_decode_lines(SplitOn(content, NEWLINE), rrs)

\* the for loop of encode: name, then " typ", " class", " ttl", " rdata"
RECURSIVE MasterFile_encode(_)
MasterFile_encode(rrs) ==
    IF rrs = << >> THEN << >>
    ELSE Head(rrs).name \o << SPACE >> \o Decimal(Head(rrs).typ)
             \o << SPACE >> \o Decimal(Head(rrs).class)
             \o << SPACE >> \o Decimal(Head(rrs).ttl)
             \o << SPACE >> \o RDataType_as_str(Head(rrs).rdata)
             \o MasterFile_encode(Tail(rrs))

\* the number of records in a master file
MaxLines == 2

\* the A records of a zone: owners a, 1 and b.c
ZoneRecords ==
    { [name |-> n, typ |-> TYPE_A, class |-> 1, ttl |-> t,
       rdata |-> [tag |-> "A", addr |-> d]] :
          n \in { << 97 >>, << 49 >>, << 98, DOT, 99 >> },
          t \in {0, 60},
          d \in { << 1, 2, 3, 4 >>, << 10, 0, 0, 255 >> } }

\* a master file as it is given to the server: one record per line
RECURSIVE ZoneText(_)
ZoneText(rrs) ==
    IF rrs = << >> THEN << >>
    ELSE IF Len(rrs) = 1 THEN MasterFile_encode(rrs)
    ELSE MasterFile_encode(<< Head(rrs) >>) \o << NEWLINE >> \o ZoneText(Tail(rrs))

ZoneFiles ==
    { ZoneText(rrs) \o nl :
          rrs \in UNION { [1..k -> ZoneRecords] : k \in 0..MaxLines },
          nl \in { << >>, << NEWLINE >> } }

InitMaster ==
    /\ mfFile \in ZoneFiles
    /\ mfRrs = << >>
    /\ mfPc = "new"
    /\ mfBack = << >>
    /\ IdleCodec
    /\ IdleHeader
    /\ IdleNames
    /\ IdleOpt
    /\ IdleTree
    /\ IdleLabel
    /\ IdleServe
    /\ IdleForward
    /\ IdleLookups
    /\ IdleRecord
    /\ IdleEncode
    /\ IdleRdata
    /\ IdleBack
    /\ IdleSort

\* DefaultMasterFiles::new(mf) then decode()
MfDecode ==
    /\ mfPc = "new"
    /\ mfRrs' = MasterFile_decode(mfFile, mfRrs).rrs
    /\ mfPc' = CASE MasterFile_decode(mfFile, mfRrs).kind = "ok" -> "decoded"
                 [] MasterFile_decode(mfFile, mfRrs).kind = "err" -> "failed"
                 [] OTHER -> "panicked"
    /\ UNCHANGED <<mfFile, mfBack, codecVars, headerVars, namesVars, optVars, treeVars,
                   labelVars, serveVars, forwardVars, lookupsVars, recordVars, encodeVars,
                   rdataVars, backVars, sortVars>>

\* encode() of the object, new or after its decode
MfEncode ==
    /\ mfPc \in {"new", "decoded"}
    /\ mfFile' = MasterFile_encode(mfRrs)
    /\ mfPc' = "encoded"
    /\ UNCHANGED <<mfRrs, mfBack, codecVars, headerVars, namesVars, optVars, treeVars,
                   labelVars, serveVars, forwardVars, lookupsVars, recordVars, encodeVars,
                   rdataVars, backVars, sortVars>>

\* a second DefaultMasterFiles::new(mf) and its decode() of the written file
MfReread ==
    /\ mfPc = "encoded"
    /\ mfBack' = << MasterFile_decode(mfFile, << >>) >>
    /\ mfPc' = "reread"
    /\ UNCHANGED <<mfFile, mfRrs, codecVars, headerVars, namesVars, optVars, treeVars,
                   labelVars, serveVars, forwardVars, lookupsVars, recordVars, encodeVars,
                   rdataVars, backVars, sortVars>>

NextMaster == MfDecode \/ MfEncode \/ MfReread

SpecMaster == InitMaster /\ [][NextMaster]_vars

\* C27: the text written by the master-file encoder for a list of A records
\* holds one record per line, and the master-file decoder reads the same list
\* of records back from it.
C27_MasterFileRoundTrip ==
    /\ mfPc \in {"encoded", "reread"} /\ mfRrs # << >> =>
           Len(SplitOn(mfFile, NEWLINE)) = Len(mfRrs)
    /\ mfPc = "reread" => mfBack[1].kind = "ok" /\ mfBack[1].rrs = mfRrs

---------------------------------------------------------------------------
\* a name on the wire with no pointer: labels of 1 to 63 bytes, then the
\* zero octet, and nothing after it
RECURSIVE PlainName(_)
PlainName(b) ==
    /\ b # << >>
    /\ IF b[1] = 0 THEN Len(b) = 1
       ELSE b[1] <= 63 /\ Len(b) > b[1] + 1 /\ PlainName(Drop(b, b[1] + 1))

\* C28: for every compression-free name on the wire, the root name that is
\* the single zero octet included, decoding it and encoding the decoded name
\* without compression gives the same bytes again.
C28_NameRoundTrip ==
    PlainName(input) =>
        /\ nameRes # << >> => nameRes[1].kind = "ok"
        /\ nameBack # << >> => nameBack[1] = input

---------------------------------------------------------------------------
\* RRs: a list of records, extended one record at a time and sorted by
\* RRs::sort.

RECURSIVE Reverse(_)
Reverse(s) == IF s = << >> THEN << >> ELSE Append(Reverse(Tail(s)), Head(s))

\* name.rsplit('.').collect().join("."): the labels from the rightmost on,
\* put together with dots
RRs_sort_key(name) == Join(Reverse(Split(name)))

\* self.0.sort_by(|a, b| aname.cmp(&bname)): a stable sort on the keys
RECURSIVE InsertByKey(_, _)
InsertByKey(done, e) ==
    IF Len(done) = 0 THEN << e >>
    ELSE IF StrCmp(RRs_sort_key(done[1].name), RRs_sort_key(e.name)) <= 0
    THEN << done[1] >> \o InsertByKey(Tail(done), e)
    ELSE << e >> \o done

RECURSIVE RRs_sort(_)
RRs_sort(rrs) ==
    IF Len(rrs) = 0 THEN << >>
    ELSE InsertByKey(RRs_sort(SubSeq(rrs, 1, Len(rrs) - 1)), rrs[Len(rrs)])

\* the number of records in the RRs
MaxSort == 3

\* the owners: b, a.b, Z.a.b, y.a.b and b-c
SortNames ==
    { << 98 >>, << 97, DOT, 98 >>, << 90, DOT, 97, DOT, 98 >>,
      << 121, DOT, 97, DOT, 98 >>, << 98, 45, 99 >> }

InitSort ==
    /\ sortRRs = << >>
    /\ sortDone = FALSE
    /\ IdleCodec
    /\ IdleHeader
    /\ IdleNames
    /\ IdleOpt
    /\ IdleTree
    /\ IdleLabel
    /\ IdleServe
    /\ IdleForward
    /\ IdleLookups
    /\ IdleRecord
    /\ IdleEncode
    /\ IdleRdata
    /\ IdleMaster
    /\ IdleBack

\* rrs.extend(rr)
Extend ==
    /\ Len(sortRRs) < MaxSort
    /\ \E n \in SortNames : sortRRs' = Append(sortRRs, [RR_new EXCEPT !.name = n])
    /\ sortDone' = FALSE
    /\ UNCHANGED <<codecVars, headerVars, namesVars, optVars, treeVars, labelVars, serveVars,
                   forwardVars, lookupsVars, recordVars, encodeVars, rdataVars, masterVars,
                   backVars>>

\* rrs.sort()
Sort ==
    /\ ~sortDone
    /\ sortRRs' = RRs_sort(sortRRs)
    /\ sortDone' = TRUE
    /\ UNCHANGED <<codecVars, headerVars, namesVars, optVars, treeVars, labelVars, serveVars,
                   forwardVars, lookupsVars, recordVars, encodeVars, rdataVars, masterVars,
                   backVars>>

NextSort == Extend \/ Sort

SpecSort == InitSort /\ [][NextSort]_vars

LowerCase(s) == [i \in 1..Len(s) |-> ToLower(s[i])]

\* the canonical order of RFC 4034 on two names given as their labels from
\* the rightmost on: -1 when the first is before the second, 0 when they are
\* the same, 1 when it is after
RECURSIVE CanonicalCmp(_, _)
CanonicalCmp(la, lb) ==
    IF la = << >> /\ lb = << >> THEN 0
    ELSE IF la = << >> THEN -1
    ELSE IF lb = << >> THEN 1
    ELSE IF StrCmp(LowerCase(Head(la)), LowerCase(Head(lb))) # 0
         THEN StrCmp(LowerCase(Head(la)), LowerCase(Head(lb)))
    ELSE CanonicalCmp(Tail(la), Tail(lb))

\* C29: RRs::sort leaves the records in the canonical order of their owner
\* names: label by label from the rightmost, upper-case letters as lower
\* case, a name before the names that extend it to the left.
C29_SortIsCanonical ==
    sortDone =>
        \A i, j \in 1..Len(sortRRs) :
            i < j => CanonicalCmp(Reverse(Split(sortRRs[i].name)),
                                  Reverse(Split(sortRRs[j].name))) <= 0

---------------------------------------------------------------------------
\* no two leaves of the node have the same owner, nor do two leaves of any
\* node below it
RECURSIVE NoTwins(_)
NoTwins(node) ==
    /\ \A i, j \in 1..Len(node.leaves) :
           i # j => node.leaves[i].owner # node.leaves[j].owner
    /\ \A i \in 1..Len(node.leaves) : NoTwins(node.leaves[i])

\* C30: after any sequence of push calls on a DomainTree, the same name
\* pushed twice and a name pushed after a longer name below it included, no
\* node has two children with the same label.
C30_NoTwinChildren == NoTwins(tree)

=============================================================================
